---- MODULE Spec2Model ----
(***************************************************************************)
(* Transaction/commit engine of the Iceberg client for the Append and      *)
(* Rewrite operations: Operation::execute (operation.rs) run by two        *)
(* transactions against an object store and committed to a catalog that    *)
(* applies the updates only if the emitted requirement holds.              *)
(***************************************************************************)
EXTENDS Integers, Sequences, FiniteSets, TLC

(* ------------------------------ bounds -------------------------------- *)

\* number of successful Operation::execute calls in one behaviour (Append
\* and Rewrite draw their snapshot id and uuid from the count)
MaxOps == 2

\* longest `files` vector handed to Append or Rewrite
MaxFiles == 2

\* groups of entries handed to one ManifestListWriter call
MaxGroups == 2

\* entries handed to one call of the split planner, and its largest depth
MaxSplitEntries == 4

MaxSplitDepth == 2

\* manifests in the manifest list an earlier writer has left
MaxManifests == 3

\* Appends one client makes in a row
MaxAppends == 3
MaxFileCount == 40
MaxNewFiles == 12
MaxStored == 2
MaxPartitions == 2
MaxBatches == 2

(* --------------------------- program constants ------------------------ *)

MIN_DATAFILES == 4

(* ------------------------------ Option<T> ----------------------------- *)

None == <<>>

Some(x) == <<x>>

IsSome(o) == o # <<>>

Unwrap(o) == o[1]

UnwrapOr(o, d) == IF o = <<>> THEN d ELSE o[1]

(* ------------------------------- inputs ------------------------------- *)

Txns == {"A", "B"}

\* Option<String> branch of a transaction: None resolves to "main"
Branches == {None, Some("dev")}

Paths == {"a", "b"}

\* the variants of Value that update_partitions orders, and the one it
\* does not
NumericTags == {"Int", "LongInt", "Float", "Double", "Date", "Time", "Timestamp", "TimestampTZ"}

\* the partition specs a table is created with: unpartitioned, or one
\* partition field "region" of the given scalar type
PartitionSpecs == {<<>>, <<"Int">>, <<"String">>}

\* scalar code of the partition value of a data file ("EU" = 1 < "US" = 2)
RegionOf(p) == IF p \in {"b", "f"} THEN 2 ELSE 1

RecordCountOf(p) == CASE p = "a" -> 10 [] p = "b" -> 20 [] p = "f" -> 50 [] OTHER -> 100

\* DataFile {file_path, partition: Struct, record_count}
DataFile(p, fields) ==
    [file_path |-> p,
     partition |-> [i \in 1..Len(fields) |-> Some([t |-> fields[i], v |-> RegionOf(p)])],
     record_count |-> RecordCountOf(p)]

RECURSIVE SeqsUpTo(_, _)
SeqsUpTo(S, n) ==
    IF n = 0 THEN {<<>>}
    ELSE LET shorter == SeqsUpTo(S, n - 1)
         IN  shorter \cup {Append(s, x) : s \in {q \in shorter : Len(q) = n - 1}, x \in S}

\* the `files` vectors of the operations, as sequences of paths
FileLists == SeqsUpTo(Paths, MaxFiles)

(* ------------------------------ numerics ------------------------------ *)

\* (x as f64).sqrt() as usize
ISqrt(n) == CHOOSE k \in 0..n : k * k <= n /\ (k + 1) * (k + 1) > n

RECURSIVE Pow2(_)
Pow2(n) == IF n = 0 THEN 1 ELSE 2 * Pow2(n - 1)

\* usize::ilog2 for x >= 1
ILog2(x) == CHOOSE k \in 0..x : Pow2(k) <= x /\ x < Pow2(k + 1)

RECURSIVE SumSeq(_)
SumSeq(s) == IF s = <<>> THEN 0 ELSE s[1] + SumSeq(Tail(s))

(* --------------------------- table metadata --------------------------- *)

\* TableMetadata::current_snapshot: the snapshot a branch points to; None
\* (no branch) reads current_snapshot_id, a named branch reads refs
current_snapshot(meta, branch) ==
    LET id == IF branch = None THEN meta.current_snapshot_id
              ELSE IF Unwrap(branch) \in DOMAIN meta.refs
                   THEN Some(meta.refs[Unwrap(branch)].snapshot_id)
                   ELSE None
    IN  IF IsSome(id) /\ Unwrap(id) \in DOMAIN meta.snapshots
        THEN Some(meta.snapshots[Unwrap(id)])
        ELSE None

\* branch.unwrap_or("main")
RefName(branch) == UnwrapOr(branch, "main")

\* SnapshotRetention::default()
DefaultRetention == "branch-default"

(* ------------------------- partition rectangle ------------------------ *)

VMin(a, b) == IF b.v < a.v THEN b ELSE a

VMax(a, b) == IF b.v > a.v THEN b ELSE a

\* struct_to_smallvec: the partition tuple as a vector of values; a null
\* component has no position
struct_to_smallvec(partition) ==
    IF \E i \in DOMAIN partition : partition[i] = None
    THEN [ok |-> FALSE, err |-> "NotFound"]
    ELSE [ok |-> TRUE, node |-> [i \in DOMAIN partition |-> Unwrap(partition[i])]]

\* Rectangle::new
Rectangle(min, max) == [min |-> min, max |-> max]

\* Rectangle::expand_with_node
expand_with_node(r, node) ==
    [min |-> [i \in DOMAIN r.min |-> VMin(r.min[i], node[i])],
     max |-> [i \in DOMAIN r.max |-> VMax(r.max[i], node[i])]]

\* Rectangle::expand
expand(r, o) ==
    [min |-> [i \in DOMAIN r.min |-> VMin(r.min[i], o.min[i])],
     max |-> [i \in DOMAIN r.max |-> VMax(r.max[i], o.max[i])]]

Width(r, i) == r.max[i].v - r.min[i].v

\* Rectangle::cmp_with_priority: the first dimension whose widths differ
\* decides, the wider rectangle is Greater
RECURSIVE CmpFrom(_, _, _)
CmpFrom(a, b, i) ==
    IF i > Len(a.min) THEN "Equal"
    ELSE IF Width(a, i) > Width(b, i) THEN "Greater"
    ELSE IF Width(a, i) < Width(b, i) THEN "Less"
    ELSE CmpFrom(a, b, i + 1)

cmp_with_priority(a, b) == CmpFrom(a, b, 1)

\* summary_to_rectangle: the rectangle of a manifest's partition summary;
\* a summary without bounds has none
summary_to_rectangle(partitions) ==
    IF \E i \in DOMAIN partitions :
          partitions[i].lower_bound = None \/ partitions[i].upper_bound = None
    THEN [ok |-> FALSE, err |-> "NotFound"]
    ELSE [ok |-> TRUE,
          rect |-> Rectangle([i \in DOMAIN partitions |-> Unwrap(partitions[i].lower_bound)],
                             [i \in DOMAIN partitions |-> Unwrap(partitions[i].upper_bound)])]

\* the fold of Append over the partitions of its input files
RECURSIVE BoundingFrom(_, _, _, _)
BoundingFrom(files, fields, i, acc) ==
    IF i > Len(files) THEN [ok |-> TRUE, rect |-> acc]
    ELSE LET n == struct_to_smallvec(DataFile(files[i], fields).partition)
         IN  IF ~n.ok THEN [ok |-> FALSE, err |-> n.err]
             ELSE BoundingFrom(files, fields, i + 1,
                     IF acc = None THEN Some(Rectangle(n.node, n.node))
                     ELSE Some(expand_with_node(Unwrap(acc), n.node)))

\* a variant that takes the origin as the rectangle of no files
bounding_partition_values_Origin(files, fields) ==
    LET r == BoundingFrom(files, fields, 1, None)
        origin == [i \in 1..Len(fields) |-> [t |-> fields[i], v |-> 0]]
    IN  IF ~r.ok THEN r
        ELSE IF r.rect = None THEN [ok |-> TRUE, rect |-> Rectangle(origin, origin)]
        ELSE [ok |-> TRUE, rect |-> Unwrap(r.rect)]

bounding_partition_values(files, fields) ==
    LET r == BoundingFrom(files, fields, 1, None)
    IN  IF ~r.ok THEN r
        ELSE IF r.rect = None THEN [ok |-> FALSE, err |-> "NotFound"]
        ELSE [ok |-> TRUE, rect |-> Unwrap(r.rect)]

(* -------------------------- partition summary ------------------------- *)

\* the FieldSummary a manifest's summary is lazily allocated with
EmptySummary == [contains_null |-> FALSE, lower_bound |-> None, upper_bound |-> None]

\* one field of update_partitions: a present bound of one of the ordered
\* scalar variants moves to the value when the value lies outside it
UpdateField(summary, value) ==
    IF value = None THEN summary
    ELSE LET val == Unwrap(value)
             lb == summary.lower_bound
             ub == summary.upper_bound
         IN  [contains_null |-> summary.contains_null,
              lower_bound |->
                  IF IsSome(lb) /\ val.t \in NumericTags /\ Unwrap(lb).t = val.t
                     /\ Unwrap(lb).v > val.v
                  THEN Some(val) ELSE lb,
              upper_bound |->
                  IF IsSome(ub) /\ val.t \in NumericTags /\ Unwrap(ub).t = val.t
                     /\ Unwrap(ub).v < val.v
                  THEN Some(val) ELSE ub]

\* update_partitions: zip of the partition fields with the summaries
update_partitions(partitions, partition_values) ==
    [i \in DOMAIN partitions |->
        IF i \in DOMAIN partition_values
        THEN UpdateField(partitions[i], partition_values[i])
        ELSE partitions[i]]

(* ------------------------ manifests and entries ----------------------- *)

\* object-store keys: <location>/metadata/snap-<snapshot_id><uuid>.avro and
\* <location>/metadata/<uuid>-m<i>.avro
ManifestListKey(snapshot_id, uuid) == <<"snap", snapshot_id, uuid>>

ManifestKey(uuid, i) == <<"m", uuid, i>>

\* length in bytes of a serialised manifest: a header and one record per
\* entry
BytesLen(entries) == 1 + Len(entries)

\* the ManifestListEntry that Append and Rewrite create for a new manifest
NewManifest(meta, snapshot_id, uuid, i) ==
    [manifest_path |-> ManifestKey(uuid, i),
     manifest_length |-> 0,
     sequence_number |-> meta.last_sequence_number,
     min_sequence_number |-> 0,
     added_snapshot_id |-> snapshot_id,
     added_files_count |-> Some(0),
     added_rows_count |-> Some(0),
     partitions |-> None]

\* ManifestEntry::builder() of Append for one input file
AppendEntry(meta, snapshot_id, p) ==
    [status |-> "Added",
     snapshot_id |-> snapshot_id,
     sequence_number |-> Some(meta.last_sequence_number + 1),
     data_file |-> DataFile(p, meta.fields)]

\* Option<i32> counter += n
AddCount(count, n) == IF IsSome(count) THEN Some(Unwrap(count) + n) ELSE Some(n)

\* what Append adds to added_files_count for each entry it appends
AppendFilesIncrement(new_file_count) == new_file_count

\* body of the per-entry loop of Append: lazy allocation of the summary,
\* update_partitions, and the two counters
AppendUpdateManifest(manifest, entry, meta, new_file_count) ==
    LET parts == IF manifest.partitions = None
                 THEN [i \in 1..Len(meta.fields) |-> EmptySummary]
                 ELSE Unwrap(manifest.partitions)
    IN  [manifest EXCEPT
            !.partitions = Some(update_partitions(parts, entry.data_file.partition)),
            !.added_files_count = AddCount(@, AppendFilesIncrement(new_file_count)),
            !.added_rows_count = AddCount(@, entry.data_file.record_count)]

RECURSIVE AppendUpdateAll(_, _, _, _, _)
AppendUpdateAll(manifest, entries, i, meta, new_file_count) ==
    IF i > Len(entries) THEN manifest
    ELSE AppendUpdateAll(AppendUpdateManifest(manifest, entries[i], meta, new_file_count),
                         entries, i + 1, meta, new_file_count)

\* manifest.manifest_length += manifest_bytes.len()
WithLength(manifest, entries) ==
    [manifest EXCEPT !.manifest_length = @ + BytesLen(entries)]

(* ------------------------------ avro records ------------------------- *)

\* a stored record that the avro reader cannot decode: the reader yields
\* Err for it
Undecodable == [undecodable |-> TRUE]

Decodable(record) == "undecodable" \notin DOMAIN record

\* reader.filter_map(Result::ok): the records that decode
OkRecords(records) == SelectSeq(records, Decodable)

(* --------------------------- manifest selector ------------------------ *)

\* a variant that elects the first manifest of the list
SelectUnpartitioned_First(list, i, acc) ==
    IF list = <<>> THEN acc
    ELSE [acc EXCEPT
            !.sel = Some([key |-> list[1].added_rows_count, manifest |-> list[1]]),
            !.out = Tail(list),
            !.file_count =
                SumSeq([k \in DOMAIN list |-> UnwrapOr(list[k].added_files_count, 0)])]

\* fold of the unpartitioned selector: the manifest with the lowest
\* added_rows_count is kept back, the others go to the new manifest list;
\* a record that does not decode is unwrapped, which panics
RECURSIVE SelectUnpartitioned(_, _, _)
SelectUnpartitioned(list, i, acc) ==
    IF i > Len(list) \/ ~acc.ok THEN acc
    ELSE IF ~Decodable(list[i]) THEN [acc EXCEPT !.ok = FALSE, !.err = "panic"]
    ELSE LET manifest == list[i]
             row_count == manifest.added_rows_count
             fc == acc.file_count + UnwrapOr(manifest.added_files_count, 0)
             next ==
                IF acc.sel = None
                THEN [acc EXCEPT !.sel = Some([key |-> row_count, manifest |-> manifest]),
                                 !.file_count = fc]
                ELSE LET old == Unwrap(acc.sel)
                     IN  IF row_count = None
                         THEN [acc EXCEPT !.file_count = fc]
                         ELSE IF old.key = None \/ Unwrap(old.key) > Unwrap(row_count)
                         THEN [acc EXCEPT
                                 !.out = Append(@, old.manifest),
                                 !.sel = Some([key |-> row_count, manifest |-> manifest]),
                                 !.file_count = fc]
                         ELSE [acc EXCEPT !.out = Append(@, manifest), !.file_count = fc]
         IN  SelectUnpartitioned(list, i + 1, next)

\* a variant that elects the first manifest of the list
SelectPartitioned_First(list, i, acc, bounding) ==
    IF list = <<>> THEN acc
    ELSE [acc EXCEPT
            !.sel = Some([key |-> expand(summary_to_rectangle(Unwrap(list[1].partitions)).rect,
                                         bounding),
                          manifest |-> list[1]]),
            !.out = Tail(list),
            !.file_count =
                SumSeq([k \in DOMAIN list |-> UnwrapOr(list[k].added_files_count, 0)])]

\* fold of the partitioned selector: the manifest whose rectangle, expanded
\* by the rectangle of the new files, is smallest is kept back
RECURSIVE SelectPartitioned(_, _, _, _)
SelectPartitioned(list, i, acc, bounding) ==
    IF i > Len(list) \/ ~acc.ok THEN acc
    ELSE IF ~Decodable(list[i]) THEN [acc EXCEPT !.ok = FALSE, !.err = "panic"]
    ELSE LET manifest == list[i]
         IN  IF manifest.partitions = None
             THEN [acc EXCEPT !.ok = FALSE, !.err = "NotFound"]
             ELSE LET r == summary_to_rectangle(Unwrap(manifest.partitions))
                  IN  IF ~r.ok THEN [acc EXCEPT !.ok = FALSE, !.err = r.err]
                      ELSE LET bounds == expand(r.rect, bounding)
                               fc == acc.file_count + UnwrapOr(manifest.added_files_count, 0)
                               next ==
                                  IF acc.sel = None
                                  THEN [acc EXCEPT
                                          !.sel = Some([key |-> bounds, manifest |-> manifest]),
                                          !.file_count = fc]
                                  ELSE LET old == Unwrap(acc.sel)
                                       IN  IF cmp_with_priority(old.key, bounds) = "Greater"
                                           THEN [acc EXCEPT
                                                   !.out = Append(@, old.manifest),
                                                   !.sel = Some([key |-> bounds,
                                                                 manifest |-> manifest]),
                                                   !.file_count = fc]
                                           ELSE [acc EXCEPT !.out = Append(@, manifest),
                                                            !.file_count = fc]
                           IN  SelectPartitioned(list, i + 1, next, bounding)

\* a variant that treats an empty manifest list as "no manifest elected"
SelectManifest_Lenient(list, fields, bounding) ==
    LET start == [ok |-> TRUE, err |-> "", sel |-> None, out |-> <<>>, file_count |-> 0]
    IN  IF fields = <<>>
        THEN SelectUnpartitioned(list, 1, start)
        ELSE SelectPartitioned(list, 1, start, bounding)

\* "Find a manifest to add the new datafiles": the elected manifest, the
\* entries carried to the new manifest list and file_count
SelectManifest(list, fields, bounding) ==
    LET start == [ok |-> TRUE, err |-> "", sel |-> None, out |-> <<>>, file_count |-> 0]
        acc == IF fields = <<>>
               THEN SelectUnpartitioned(list, 1, start)
               ELSE SelectPartitioned(list, 1, start, bounding)
    IN  IF ~acc.ok THEN acc
        ELSE IF acc.sel = None THEN [acc EXCEPT !.ok = FALSE, !.err = "NotFound"]
        ELSE acc

(* ----------------------------- split planner -------------------------- *)

\* the dimension of a rectangle with the largest width (the first of them)
LargestDim(rect) ==
    CHOOSE d \in DOMAIN rect.min :
        /\ \A e \in DOMAIN rect.min : Width(rect, e) <= Width(rect, d)
        /\ \A e \in DOMAIN rect.min : Width(rect, e) = Width(rect, d) => d <= e

\* the median of the entries' values along dimension d
MedianAlong(entries, d) ==
    LET val(i) == Unwrap(entries[i].data_file.partition[d]).v
        n == Len(entries)
    IN  CHOOSE m \in {val(i) : i \in 1..n} :
            /\ Cardinality({i \in 1..n : val(i) < m}) <= (n - 1) \div 2
            /\ Cardinality({i \in 1..n : val(i) <= m}) > (n - 1) \div 2

\* a variant that hands every entry to every group
split_datafiles_All(entries, rect, n_splits) == [i \in 1..Pow2(n_splits) |-> entries]

\* one split step: entries at or below the pivot go to the low child
RECURSIVE split_datafiles(_, _, _)
split_datafiles(entries, rect, n_splits) ==
    IF n_splits = 0 THEN <<entries>>
    ELSE IF rect.min = <<>> \/ entries = <<>>
    THEN split_datafiles(entries, rect, n_splits - 1)
         \o split_datafiles(<<>>, rect, n_splits - 1)
    ELSE LET d == LargestDim(rect)
             pivot == MedianAlong(entries, d)
             isLow(e) == Unwrap(e.data_file.partition[d]).v <= pivot
             isHigh(e) == ~isLow(e)
             pv == [t |-> rect.min[d].t, v |-> pivot]
             lowRect == [rect EXCEPT !.max[d] = pv]
             highRect == [rect EXCEPT !.min[d] = pv]
         IN  split_datafiles(SelectSeq(entries, isLow), lowRect, n_splits - 1)
             \o split_datafiles(SelectSeq(entries, isHigh), highRect, n_splits - 1)

(* ------------------------- Operation::execute ------------------------- *)

\* Err(..) of execute: nothing is emitted
Failed(err) == [ok |-> FALSE, err |-> err, requirement |-> None, updates |-> <<>>, puts |-> <<>>]

Put(key, val) == [key |-> key, val |-> val]

\* a variant that always names the main branch
RefRequirement_Main(old_snapshot, branch) ==
    IF old_snapshot = None THEN None
    ELSE Some([type |-> "AssertRefSnapshotId",
               ref |-> "main",
               snapshot_id |-> Unwrap(old_snapshot).snapshot_id])

\* the requirement of Append and of Rewrite: the branch still points to the
\* snapshot the operation saw, when it saw one
RefRequirement(old_snapshot, branch) ==
    IF old_snapshot = None THEN None
    ELSE Some([type |-> "AssertRefSnapshotId",
               ref |-> RefName(branch),
               snapshot_id |-> Unwrap(old_snapshot).snapshot_id])

AddSnapshot(snapshot) == [type |-> "AddSnapshot", snapshot |-> snapshot]

SetSnapshotRef(branch, snapshot_id) ==
    [type |-> "SetSnapshotRef",
     ref_name |-> RefName(branch),
     snapshot_reference |-> [snapshot_id |-> snapshot_id, retention |-> DefaultRetention]]

RemoveSnapshots(ids) == [type |-> "RemoveSnapshots", snapshot_ids |-> ids]

\* a variant that repeats the sequence number of the previous snapshot
AppendSequenceNumber_Repeat(old_snapshot) ==
    IF old_snapshot = None THEN 0 ELSE Unwrap(old_snapshot).sequence_number

\* sequence number of the snapshot Append builds
AppendSequenceNumber(old_snapshot) ==
    IF old_snapshot = None THEN 0 ELSE Unwrap(old_snapshot).sequence_number + 1

\* the snapshot Append builds
AppendSnapshot(snapshot_id, manifest_list, old_snapshot) ==
    [snapshot_id |-> snapshot_id,
     manifest_list |-> manifest_list,
     sequence_number |-> AppendSequenceNumber(old_snapshot),
     operation |-> "Append"]

\* a variant that sets the reference before it adds the snapshot
AppendUpdates_RefFirst(snapshot, branch) ==
    <<SetSnapshotRef(branch, snapshot.snapshot_id), AddSnapshot(snapshot)>>

\* the updates Append returns
AppendUpdates(snapshot, branch) ==
    <<AddSnapshot(snapshot), SetSnapshotRef(branch, snapshot.snapshot_id)>>

\* limit of data files per manifest
Limit(file_count, n) == MIN_DATAFILES + ISqrt(file_count + n)

\* a variant that takes the logarithm alone
NSplits_Log(new_file_count, limit) ==
    IF new_file_count \div limit = 0 THEN 0 ELSE ILog2(new_file_count \div limit)

\* a variant that splits once at most
NSplits_Once(new_file_count, limit) ==
    IF new_file_count \div limit = 0 THEN 0 ELSE 1

\* "How many times do the files need to be split"
NSplits(new_file_count, limit) ==
    IF new_file_count \div limit = 0 THEN 0 ELSE ILog2(new_file_count \div limit) + 1

\* where Append (n_splits = 0) puts the manifest it wrote: the elected
\* manifest keeps its manifest_path
AppendManifestTarget(manifest, meta, snapshot_id, uuid) ==
    IF manifest = None THEN NewManifest(meta, snapshot_id, uuid, 0) ELSE Unwrap(manifest)

\* the manifests Append writes for the groups of a split
SplitManifests(splits, meta, snapshot_id, uuid, new_file_count) ==
    [i \in 1..Len(splits) |->
        WithLength(AppendUpdateAll(NewManifest(meta, snapshot_id, uuid, i - 1),
                                   splits[i], 1, meta, new_file_count),
                   splits[i])]

\* the manifest list of the old snapshot is read and a manifest elected;
\* without an old snapshot there is no manifest
AppendSelection(meta, st, old_snapshot, bounding) ==
    IF old_snapshot = None
    THEN [ok |-> TRUE, err |-> "", sel |-> None, out |-> <<>>, file_count |-> 0]
    ELSE SelectManifest(st[Unwrap(old_snapshot).manifest_list], meta.fields, bounding)

\* the elected manifest, if any
ElectedManifest(selection) ==
    IF selection.sel = None THEN None ELSE Some(Unwrap(selection.sel).manifest)

\* files of the elected manifest plus the new files
NewFileCount(manifest, files) ==
    (IF manifest = None THEN 0 ELSE UnwrapOr(Unwrap(manifest).added_files_count, 0))
    + Len(files)

\* `bounds`: the rectangle of the elected manifest expanded by the one of
\* the new files, or the latter alone
AppendBounds(manifest, bounding) ==
    IF manifest = None \/ Unwrap(manifest).partitions = None
    THEN [ok |-> TRUE, rect |-> bounding]
    ELSE LET r == summary_to_rectangle(Unwrap(Unwrap(manifest).partitions))
         IN  IF r.ok THEN [ok |-> TRUE, rect |-> expand(r.rect, bounding)] ELSE r

\* the records stored in the elected manifest
ExistingEntries(st, manifest) ==
    IF manifest = None THEN <<>> ELSE st[Unwrap(manifest).manifest_path]

\* a variant that writes the new entries only
AppendSingle_NewOnly(meta, st, manifest, new_entries, snapshot_id, uuid, new_file_count) ==
    LET single == WithLength(
                     AppendUpdateAll(AppendManifestTarget(manifest, meta, snapshot_id, uuid),
                                     new_entries, 1, meta, new_file_count),
                     new_entries)
    IN  [manifests |-> <<single>>, puts |-> <<Put(single.manifest_path, new_entries)>>]

\* n_splits = 0: the existing entries that decode are copied, the new ones
\* appended, and the manifest is put at the manifest's path
AppendSingle(meta, st, manifest, new_entries, snapshot_id, uuid, new_file_count) ==
    LET content == OkRecords(ExistingEntries(st, manifest)) \o new_entries
        single == WithLength(
                     AppendUpdateAll(AppendManifestTarget(manifest, meta, snapshot_id, uuid),
                                     new_entries, 1, meta, new_file_count),
                     content)
    IN  [manifests |-> <<single>>, puts |-> <<Put(single.manifest_path, content)>>]

\* n_splits > 0: new and existing entries are split and every group is
\* written to a new manifest
AppendSplit(meta, st, manifest, new_entries, rect, n_splits, snapshot_id, uuid, new_file_count) ==
    LET splits == split_datafiles(new_entries \o ExistingEntries(st, manifest), rect, n_splits)
        written == SplitManifests(splits, meta, snapshot_id, uuid, new_file_count)
    IN  [manifests |-> written,
         puts |-> [i \in 1..Len(splits) |-> Put(written[i].manifest_path, splits[i])]]

\* a variant that puts the manifest list before the manifests
AppendResult_ListFirst(branch, old_snapshot, snapshot, carried, written) ==
    [ok |-> TRUE,
     err |-> "",
     requirement |-> RefRequirement(old_snapshot, branch),
     updates |-> AppendUpdates(snapshot, branch),
     puts |-> <<Put(snapshot.manifest_list, carried \o written.manifests)>> \o written.puts]

\* Ok((requirement, updates)) of Append, with the puts made on the way:
\* the manifests, then the manifest list
AppendResult(branch, old_snapshot, snapshot, carried, written) ==
    [ok |-> TRUE,
     err |-> "",
     requirement |-> RefRequirement(old_snapshot, branch),
     updates |-> AppendUpdates(snapshot, branch),
     puts |-> written.puts \o <<Put(snapshot.manifest_list, carried \o written.manifests)>>]

\* Append from `if n_splits == 0` on
AppendWrite(meta, st, branch, files, snapshot_id, uuid, old_snapshot, manifest, carried, bounds, n_splits, new_file_count) ==
    IF ~bounds.ok THEN Failed(bounds.err)
    ELSE IF manifest # None /\ Unwrap(manifest).manifest_path \notin DOMAIN st
    THEN Failed("ObjectStore")
    ELSE IF n_splits > 0 /\ OkRecords(ExistingEntries(st, manifest)) # ExistingEntries(st, manifest)
    THEN Failed("External")
    ELSE AppendResult(
            branch, old_snapshot,
            AppendSnapshot(snapshot_id, ManifestListKey(snapshot_id, uuid), old_snapshot),
            carried,
            IF n_splits = 0
            THEN AppendSingle(meta, st, manifest,
                              [i \in 1..Len(files) |-> AppendEntry(meta, snapshot_id, files[i])],
                              snapshot_id, uuid, new_file_count)
            ELSE AppendSplit(meta, st, manifest,
                             [i \in 1..Len(files) |-> AppendEntry(meta, snapshot_id, files[i])],
                             bounds.rect, n_splits, snapshot_id, uuid, new_file_count))

\* Append from `let limit` on: limit, new_file_count, n_splits and bounds
AppendPlan(meta, st, branch, files, snapshot_id, uuid, old_snapshot, bounding, manifest, carried, file_count) ==
    AppendWrite(meta, st, branch, files, snapshot_id, uuid, old_snapshot, manifest, carried,
                AppendBounds(manifest, bounding),
                NSplits(NewFileCount(manifest, files), Limit(file_count, Len(files))),
                NewFileCount(manifest, files))

\* Append once the manifest list of the old snapshot has been folded
AppendSelected(meta, st, branch, files, snapshot_id, uuid, old_snapshot, bounding, selection) ==
    IF ~selection.ok THEN Failed(selection.err)
    ELSE AppendPlan(meta, st, branch, files, snapshot_id, uuid, old_snapshot, bounding,
                    ElectedManifest(selection), selection.out, selection.file_count)

\* Append once the bounding rectangle of the new files is known
AppendBounded(meta, st, branch, files, snapshot_id, uuid, old_snapshot, bnd) ==
    IF ~bnd.ok THEN Failed(bnd.err)
    ELSE IF old_snapshot # None /\ Unwrap(old_snapshot).manifest_list \notin DOMAIN st
    THEN Failed("ObjectStore")
    ELSE AppendSelected(meta, st, branch, files, snapshot_id, uuid, old_snapshot, bnd.rect,
                        AppendSelection(meta, st, old_snapshot, bnd.rect))

\* the keys Append asks the object store for once it has elected a
\* manifest: the manifest is read unless `bounds` failed before
AppendManifestGets(manifest, bounding) ==
    IF manifest = None \/ ~AppendBounds(manifest, bounding).ok THEN <<>>
    ELSE <<Unwrap(manifest).manifest_path>>

\* the keys Append asks the object store for, in order: the manifest list
\* of the old snapshot, then the elected manifest
AppendGets(meta, st, old_snapshot, bnd) ==
    IF ~bnd.ok \/ old_snapshot = None THEN <<>>
    ELSE IF Unwrap(old_snapshot).manifest_list \notin DOMAIN st
    THEN <<Unwrap(old_snapshot).manifest_list>>
    ELSE <<Unwrap(old_snapshot).manifest_list>>
         \o (IF ~AppendSelection(meta, st, old_snapshot, bnd.rect).ok THEN <<>>
             ELSE AppendManifestGets(
                     ElectedManifest(AppendSelection(meta, st, old_snapshot, bnd.rect)),
                     bnd.rect))

\* the result of an operation together with the keys it read
WithGets(r, gets) ==
    [ok |-> r.ok, err |-> r.err, requirement |-> r.requirement, updates |-> r.updates,
     puts |-> r.puts, gets |-> gets]

\* Operation::Append
ExecAppend(meta, st, branch, files, snapshot_id, uuid) ==
    WithGets(AppendBounded(meta, st, branch, files, snapshot_id, uuid,
                           current_snapshot(meta, branch),
                           bounding_partition_values(files, meta.fields)),
             AppendGets(meta, st, current_snapshot(meta, branch),
                        bounding_partition_values(files, meta.fields)))

\* a variant that keeps only the first file of a partition value
FilesOfPartition_First(files, fields, pv) ==
    LET same(p) == DataFile(p, fields).partition = pv
    IN  SubSeq(SelectSeq(files, same), 1, 1)

\* "Split datafils by partition": the files of one partition value, in the
\* order of the input
FilesOfPartition(files, fields, pv) ==
    LET same(p) == DataFile(p, fields).partition = pv
    IN  SelectSeq(files, same)

PartitionsOf(files, fields) == {DataFile(files[i], fields).partition : i \in 1..Len(files)}

\* the orders in which a HashMap may iterate over a set of keys
KeyOrders(S) ==
    {o \in [1..Cardinality(S) -> S] : \A i, j \in 1..Cardinality(S) : o[i] = o[j] => i = j}

\* ManifestEntry::builder() of write_manifest: the ids are those of the
\* current snapshot of the metadata
RewriteEntry(meta, branch, p) ==
    [status |-> "Added",
     snapshot_id |-> Unwrap(meta.current_snapshot_id),
     sequence_number |-> Some(Unwrap(current_snapshot(meta, branch)).sequence_number),
     data_file |-> DataFile(p, meta.fields)]

\* body of the per-file loop of write_manifest
RewriteUpdateManifest(manifest, p, meta, files_count) ==
    LET parts == IF manifest.partitions = None
                 THEN [i \in 1..Len(meta.fields) |-> EmptySummary]
                 ELSE Unwrap(manifest.partitions)
        datafile == DataFile(p, meta.fields)
    IN  [manifest EXCEPT
            !.partitions = Some(update_partitions(parts, datafile.partition)),
            !.added_files_count = AddCount(@, files_count),
            !.added_rows_count = AddCount(@, datafile.record_count)]

RECURSIVE RewriteUpdateAll(_, _, _, _, _)
RewriteUpdateAll(manifest, group, i, meta, files_count) ==
    IF i > Len(group) THEN manifest
    ELSE RewriteUpdateAll(RewriteUpdateManifest(manifest, group[i], meta, files_count),
                          group, i + 1, meta, files_count)

\* the entries write_manifest stores for the files of one partition value
RewriteManifestContent(meta, branch, group) ==
    [i \in 1..Len(group) |-> RewriteEntry(meta, branch, group[i])]

\* write_manifest for a new manifest holding one partition value
write_manifest(meta, manifest, group, branch) ==
    LET files_count == UnwrapOr(manifest.added_files_count, 0) + 1
        content == RewriteManifestContent(meta, branch, group)
    IN  IF group # <<>> /\ meta.current_snapshot_id = None
        THEN [ok |-> FALSE, err |-> "NotFound"]
        ELSE IF group # <<>> /\ current_snapshot(meta, branch) = None
        THEN [ok |-> FALSE, err |-> "NotFound"]
        ELSE [ok |-> TRUE,
              manifest |-> WithLength(RewriteUpdateAll(manifest, group, 1, meta, files_count),
                                      content),
              content |-> content]

\* sequence number of the snapshot Rewrite builds
RewriteSequenceNumber(old_snapshot) == 0

\* the snapshot Rewrite builds
RewriteSnapshot(snapshot_id, manifest_list, old_snapshot) ==
    [snapshot_id |-> snapshot_id,
     manifest_list |-> manifest_list,
     sequence_number |-> RewriteSequenceNumber(old_snapshot),
     operation |-> "Append"]

\* a variant that removes only the snapshot the branch pointed to
RewriteUpdates_TipOnly(meta, snapshot, branch) ==
    <<RemoveSnapshots({id \in DOMAIN meta.snapshots :
                          current_snapshot(meta, branch) = Some(meta.snapshots[id])}),
      AddSnapshot(snapshot),
      SetSnapshotRef(branch, snapshot.snapshot_id)>>

\* the updates Rewrite returns
RewriteUpdates(meta, snapshot, branch) ==
    <<RemoveSnapshots(DOMAIN meta.snapshots),
      AddSnapshot(snapshot),
      SetSnapshotRef(branch, snapshot.snapshot_id)>>

\* a variant that puts the manifest list before it writes the manifests
RewriteWritten_ListFirst(meta, st, branch, files, snapshot_id, uuid, keys) ==
    LET old_snapshot == current_snapshot(meta, branch)
        manifest_list_location == ManifestListKey(snapshot_id, uuid)
        results == [i \in 1..Len(keys) |->
                      write_manifest(meta, NewManifest(meta, snapshot_id, uuid, i - 1),
                                     FilesOfPartition(files, meta.fields, keys[i]), branch)]
        snapshot == RewriteSnapshot(snapshot_id, manifest_list_location, old_snapshot)
    IN  IF \E i \in 1..Len(keys) : ~results[i].ok
        THEN [Failed("NotFound") EXCEPT !.puts = <<Put(manifest_list_location, <<>>)>>]
        ELSE [ok |-> TRUE,
              err |-> "",
              requirement |-> RefRequirement(old_snapshot, branch),
              updates |-> RewriteUpdates(meta, snapshot, branch),
              puts |-> <<Put(manifest_list_location,
                             [i \in 1..Len(keys) |-> results[i].manifest])>>
                       \o [i \in 1..Len(keys) |->
                            Put(results[i].manifest.manifest_path, results[i].content)]]

\* Rewrite: the manifests, the manifest list and the result; keys is the
\* order in which the map of partition values is iterated
RewriteWritten(meta, st, branch, files, snapshot_id, uuid, keys) ==
    LET old_snapshot == current_snapshot(meta, branch)
        manifest_list_location == ManifestListKey(snapshot_id, uuid)
        results == [i \in 1..Len(keys) |->
                      write_manifest(meta, NewManifest(meta, snapshot_id, uuid, i - 1),
                                     FilesOfPartition(files, meta.fields, keys[i]), branch)]
        snapshot == RewriteSnapshot(snapshot_id, manifest_list_location, old_snapshot)
    IN  IF \E i \in 1..Len(keys) : ~results[i].ok
        THEN Failed("NotFound")
        ELSE [ok |-> TRUE,
              err |-> "",
              requirement |-> RefRequirement(old_snapshot, branch),
              updates |-> RewriteUpdates(meta, snapshot, branch),
              puts |-> [i \in 1..Len(keys) |->
                            Put(results[i].manifest.manifest_path, results[i].content)]
                       \o <<Put(manifest_list_location,
                                [i \in 1..Len(keys) |-> results[i].manifest])>>]

\* Operation::Rewrite; it reads nothing from the object store
ExecRewrite(meta, st, branch, files, snapshot_id, uuid, keys) ==
    WithGets(RewriteWritten(meta, st, branch, files, snapshot_id, uuid, keys), <<>>)

(* ----------------------- the other operations ------------------------- *)

\* Ok((requirement, updates)) of an operation that puts nothing
Emitted(requirement, updates) ==
    [ok |-> TRUE, err |-> "", requirement |-> requirement, updates |-> updates, puts |-> <<>>,
     gets |-> <<>>]

\* Operation::UpdateProperties
ExecUpdateProperties(meta, entries) ==
    Emitted(None, <<[type |-> "SetProperties", updates |-> entries]>>)

\* a variant that never emits a requirement
ExecSetSnapshotRef_Unconditional(meta, key, value) ==
    Emitted(None,
            <<[type |-> "SetSnapshotRef", ref_name |-> key, snapshot_reference |-> value]>>)

\* Operation::SetSnapshotRef: the requirement names the snapshot the
\* reference points to now, when the reference exists
ExecSetSnapshotRef(meta, key, value) ==
    Emitted(IF key \in DOMAIN meta.refs
            THEN Some([type |-> "AssertRefSnapshotId",
                       ref |-> key,
                       snapshot_id |-> meta.refs[key].snapshot_id])
            ELSE None,
            <<[type |-> "SetSnapshotRef", ref_name |-> key, snapshot_reference |-> value]>>)

\* schema.fields().iter().map(|x| x.id).max()
MaxFieldId(schema) ==
    IF schema = {} THEN None ELSE Some(CHOOSE m \in schema : \A x \in schema : x <= m)

\* Operation::AddSchema; a schema is the set of its field ids
ExecAddSchema(meta, schema) ==
    Emitted(None,
            <<[type |-> "AddSchema", schema |-> schema, last_column_id |-> MaxFieldId(schema)]>>)

\* Operation::SetDefaultSpec
ExecSetDefaultSpec(meta, spec_id) ==
    Emitted(None, <<[type |-> "SetDefaultSpec", spec_id |-> spec_id]>>)

(* -------------------------------- catalog ----------------------------- *)

\* the catalog's check of a requirement against its metadata
RequirementHolds(meta, requirement) ==
    IF requirement = None THEN TRUE
    ELSE /\ Unwrap(requirement).ref \in DOMAIN meta.refs
         /\ meta.refs[Unwrap(requirement).ref].snapshot_id = Unwrap(requirement).snapshot_id

MaxOf(a, b) == IF a > b THEN a ELSE b

Restrict(f, S) == [x \in S |-> f[x]]

\* the catalog's application of one update
ApplyUpdate(meta, u) ==
    CASE u.type = "AddSnapshot" ->
            [meta EXCEPT
                !.snapshots = [id \in DOMAIN @ \cup {u.snapshot.snapshot_id} |->
                                  IF id = u.snapshot.snapshot_id THEN u.snapshot ELSE @[id]],
                !.last_sequence_number = MaxOf(@, u.snapshot.sequence_number)]
      [] u.type = "SetSnapshotRef" ->
            [meta EXCEPT
                !.refs = [n \in DOMAIN @ \cup {u.ref_name} |->
                             IF n = u.ref_name THEN u.snapshot_reference ELSE @[n]],
                !.current_snapshot_id =
                    IF u.ref_name = "main" THEN Some(u.snapshot_reference.snapshot_id) ELSE @]
      [] u.type = "RemoveSnapshots" ->
            [meta EXCEPT !.snapshots = Restrict(@, DOMAIN @ \ u.snapshot_ids)]
      \* properties, schemas and the default spec are not part of the
      \* snapshot lineage this metadata holds
      [] u.type \in {"SetProperties", "AddSchema", "SetDefaultSpec"} -> meta

RECURSIVE ApplyUpdates(_, _, _)
ApplyUpdates(meta, updates, i) ==
    IF i > Len(updates) THEN meta
    ELSE ApplyUpdates(ApplyUpdate(meta, updates[i]), updates, i + 1)

\* the object store after a sequence of puts
RECURSIVE ApplyPuts(_, _, _)
ApplyPuts(st, puts, i) ==
    IF i > Len(puts) THEN st
    ELSE ApplyPuts([k \in DOMAIN st \cup {puts[i].key} |->
                       IF k = puts[i].key THEN puts[i].val ELSE st[k]],
                   puts, i + 1)

(* ----------------------------- Tabular::reload ----------------------- *)

\* the identifier of the relation and that of another one
TableIdentifier == "db.t"

Identifiers == {TableIdentifier, "db.u"}

\* enum Tabular {Table, View, MaterializedView}: a handle with its
\* identifier and metadata
Variants == {"Table", "View", "MaterializedView"}

Tabular(variant, identifier, metadata) ==
    [variant |-> variant, identifier |-> identifier, metadata |-> metadata]

\* one arm of reload: the catalog's answer is kept if it is of the arm's
\* variant; `?` returns the catalog's error, a different variant is
\* InvalidFormat; only then is the handle replaced
ReloadArm(variant, self, response) ==
    IF ~response.ok THEN [ok |-> FALSE, err |-> response.err, self |-> self]
    ELSE IF response.tabular.variant # variant
    THEN [ok |-> FALSE, err |-> "InvalidFormat", self |-> self]
    ELSE [ok |-> TRUE, err |-> "", self |-> response.tabular]

\* a variant that replaces the handle by whatever the catalog returned
reload_Any(self, response) ==
    IF ~response.ok THEN [ok |-> FALSE, err |-> response.err, self |-> self]
    ELSE [ok |-> TRUE, err |-> "", self |-> response.tabular]

\* Tabular::reload, given what catalog.load_table(identifier) answers
reload(self, response) ==
    CASE self.variant = "Table" -> ReloadArm("Table", self, response)
      [] self.variant = "View" -> ReloadArm("View", self, response)
      [] self.variant = "MaterializedView" -> ReloadArm("MaterializedView", self, response)

(* ------------------ Table: manifests, delete_all_table_files ---------- *)

\* iter.collect::<Result<Vec<_>, _>>(): the records, or the first Err
CollectOk(records) ==
    IF OkRecords(records) = records
    THEN [ok |-> TRUE, err |-> "", manifests |-> records]
    ELSE [ok |-> FALSE, err |-> "External", manifests |-> <<>>]

\* read_snapshot: the manifest list of the snapshot is fetched; its
\* records are the items of the iterator
read_snapshot(snapshot, st) ==
    IF snapshot.manifest_list \notin DOMAIN st
    THEN [ok |-> FALSE, err |-> "External", manifests |-> <<>>]
    ELSE [ok |-> TRUE, err |-> "", manifests |-> st[snapshot.manifest_list]]

\* `end_snapshot` of Table::manifests: the snapshot named by `end`, or the
\* current snapshot of the main branch
EndSnapshot(meta, end) ==
    IF end # None /\ Unwrap(end) \in DOMAIN meta.snapshots
    THEN Some(meta.snapshots[Unwrap(end)])
    ELSE current_snapshot(meta, None)

\* `start_sequence_number` of Table::manifests: that of the snapshot named
\* by `start`, None if it is 0
StartSequenceNumber(meta, start) ==
    IF start = None \/ Unwrap(start) \notin DOMAIN meta.snapshots THEN None
    ELSE IF meta.snapshots[Unwrap(start)].sequence_number = 0 THEN None
    ELSE Some(meta.snapshots[Unwrap(start)].sequence_number)

\* the match on start_sequence_number: the manifests above it, or all
FilterManifests(iter, start_sequence_number) ==
    LET above(manifest) == manifest.sequence_number > Unwrap(start_sequence_number)
    IN  IF ~iter.ok THEN iter
        ELSE IF start_sequence_number = None THEN CollectOk(iter.manifests)
        ELSE IF ~CollectOk(iter.manifests).ok THEN CollectOk(iter.manifests)
        ELSE [ok |-> TRUE, err |-> "", manifests |-> SelectSeq(iter.manifests, above)]

\* Table::manifests(start, end)
manifests(meta, st, start, end) ==
    IF EndSnapshot(meta, end) = None THEN [ok |-> TRUE, err |-> "", manifests |-> <<>>]
    ELSE FilterManifests(read_snapshot(Unwrap(EndSnapshot(meta, end)), st),
                         StartSequenceNumber(meta, start))

\* the paths of the data files the manifests list
DataFilePaths(list, st) ==
    UNION {{st[list[i].manifest_path][k].data_file.file_path :
                k \in DOMAIN st[list[i].manifest_path]} : i \in DOMAIN list}

NothingDeleted == [data_files |-> {}, manifests |-> {}, manifest_lists |-> {}]

\* delete_all_table_files once the manifests of the current snapshot have
\* been collected: the data files they list, the manifests, then the
\* manifest lists of all snapshots are deleted
DeleteFiles(meta, st, list) ==
    IF \E i \in DOMAIN list : list[i].manifest_path \notin DOMAIN st
    THEN [ok |-> FALSE, err |-> "panic", deleted |-> NothingDeleted]
    ELSE IF \E i \in DOMAIN list : OkRecords(st[list[i].manifest_path]) # st[list[i].manifest_path]
    THEN [ok |-> FALSE, err |-> "External", deleted |-> NothingDeleted]
    ELSE IF \E id \in DOMAIN meta.snapshots : meta.snapshots[id].manifest_list \notin DOMAIN st
    THEN [ok |-> FALSE, err |-> "External",
          deleted |-> [data_files |-> DataFilePaths(list, st),
                       manifests |-> {list[i].manifest_path : i \in DOMAIN list},
                       manifest_lists |-> {}]]
    ELSE [ok |-> TRUE, err |-> "",
          deleted |-> [data_files |-> DataFilePaths(list, st),
                       manifests |-> {list[i].manifest_path : i \in DOMAIN list},
                       manifest_lists |-> {meta.snapshots[id].manifest_list :
                                              id \in DOMAIN meta.snapshots}]]

\* delete_all_table_files(metadata, object_store)
delete_all_table_files(meta, st) ==
    IF current_snapshot(meta, None) = None
    THEN [ok |-> TRUE, err |-> "", deleted |-> NothingDeleted]
    ELSE IF ~CollectOk(read_snapshot(Unwrap(current_snapshot(meta, None)), st).manifests).ok
            \/ ~read_snapshot(Unwrap(current_snapshot(meta, None)), st).ok
    THEN [ok |-> FALSE, err |-> "External", deleted |-> NothingDeleted]
    ELSE DeleteFiles(meta, st, read_snapshot(Unwrap(current_snapshot(meta, None)), st).manifests)

\* the object store without the deleted manifests and manifest lists
Deleted(st, deleted) ==
    [k \in DOMAIN st \ (deleted.manifests \cup deleted.manifest_lists) |-> st[k]]

(* ----------------------------- datafiles ------------------------------ *)

\* "filter manifest files according to filter vector": the manifests
\* zipped with the flags, those whose flag is true; all without a vector
FilteredManifests(manifest_list, filter) ==
    IF filter = None THEN manifest_list
    ELSE LET predicate == Unwrap(filter)
             zipped == {i \in DOMAIN manifest_list : i \in DOMAIN predicate /\ predicate[i]}
             flagged == SelectSeq([i \in DOMAIN manifest_list |->
                                      IF i \in zipped THEN Some(manifest_list[i]) ELSE None],
                                  IsSome)
         IN  [i \in DOMAIN flagged |-> Unwrap(flagged[i])]

\* an entry without sequence number takes the one of the manifest-list
\* entry of the manifest it was read from
InheritSequenceNumber(entry, sequence_number) ==
    IF entry.sequence_number # None THEN entry
    ELSE [entry EXCEPT !.sequence_number = Some(sequence_number)]

\* a variant whose lower bound is inclusive
InRange_Closed(sequence_number, sequence_number_range) ==
    /\ sequence_number_range[1] = None \/ Unwrap(sequence_number_range[1]) <= sequence_number
    /\ sequence_number_range[2] = None \/ sequence_number <= Unwrap(sequence_number_range[2])

\* `filter` of the closure: start < sequence_number <= end, an absent
\* bound not constraining
InRange(sequence_number, sequence_number_range) ==
    /\ sequence_number_range[1] = None \/ Unwrap(sequence_number_range[1]) < sequence_number
    /\ sequence_number_range[2] = None \/ sequence_number <= Unwrap(sequence_number_range[2])

\* the entries one manifest contributes to the stream
ManifestYield(file, st, sequence_number_range) ==
    LET inherited == [k \in DOMAIN OkRecords(st[file.manifest_path]) |->
                        InheritSequenceNumber(OkRecords(st[file.manifest_path])[k],
                                              file.sequence_number)]
        kept(x) == InRange(Unwrap(x.sequence_number), sequence_number_range)
    IN  SelectSeq(inherited, kept)

RECURSIVE YieldAll(_, _, _)
YieldAll(files, st, sequence_number_range) ==
    IF files = <<>> THEN <<>>
    ELSE ManifestYield(files[1], st, sequence_number_range)
         \o YieldAll(Tail(files), st, sequence_number_range)

\* flat_map_unordered fixes no order among the entries of different
\* manifests: what a stream yields is a bag, entry -> number of times
Yielded(items) ==
    [x \in {items[i] : i \in DOMAIN items} |-> Cardinality({i \in DOMAIN items : items[i] = x})]

\* datafiles(object_store, manifests, filter, sequence_number_range): the
\* manifests it gets and the entries its stream yields; a manifest that
\* cannot be fetched makes result.unwrap() panic
datafiles(st, manifest_list, filter, sequence_number_range) ==
    LET files == FilteredManifests(manifest_list, filter)
    IN  IF \E i \in DOMAIN files : files[i].manifest_path \notin DOMAIN st
        THEN [ok |-> FALSE, err |-> "panic", gets |-> {}, yielded |-> <<>>]
        ELSE [ok |-> TRUE, err |-> "",
              gets |-> {files[i].manifest_path : i \in DOMAIN files},
              yielded |-> Yielded(YieldAll(files, st, sequence_number_range))]

(* --------------------------- ManifestListWriter ----------------------- *)

\* ManifestListWriter::try_new: a fresh snapshot id and uuid, manifest_index
\* 0, an empty manifest list; puts are the puts made through the writer
ManifestListWriter(meta, branch, snapshot_id, uuid) ==
    [table_metadata |-> meta, branch |-> branch, snapshot_id |-> snapshot_id,
     snapshot_uuid |-> uuid, manifest_index |-> 0, manifest_list_writer |-> <<>>,
     puts |-> <<>>]

\* what ManifestWriter::finish returns for the manifest it has put
FinishedManifest(manifest_location, snapshot_id, entry_group) ==
    [manifest_path |-> manifest_location,
     manifest_length |-> BytesLen(entry_group),
     added_snapshot_id |-> snapshot_id,
     added_files_count |-> Some(Len(entry_group))]

\* one turn of the loop over the groups: the manifest is written at
\* <uuid>-m<manifest_index> and its header appended to the manifest list;
\* manifest_index is left as it is
AppendEntryGroup(writer, entry_group) ==
    [writer EXCEPT
        !.puts = Append(@, Put(ManifestKey(writer.snapshot_uuid, writer.manifest_index),
                               entry_group)),
        !.manifest_list_writer =
            Append(@, FinishedManifest(ManifestKey(writer.snapshot_uuid, writer.manifest_index),
                                       writer.snapshot_id, entry_group))]

\* ManifestListWriter::append_manifest_entries_to_new_manifests
RECURSIVE append_manifest_entries_to_new_manifests(_, _, _)
append_manifest_entries_to_new_manifests(writer, grouped_manifest_entries, i) ==
    IF i > Len(grouped_manifest_entries) THEN writer
    ELSE append_manifest_entries_to_new_manifests(
            AppendEntryGroup(writer, grouped_manifest_entries[i]),
            grouped_manifest_entries, i + 1)

\* ManifestListWriter::finish: the manifest list is put and the snapshot
\* built; its sequence number is last_sequence_number of the metadata
finish(writer) ==
    [put |-> Put(ManifestListKey(writer.snapshot_id, writer.snapshot_uuid),
                 writer.manifest_list_writer),
     snapshot |-> [snapshot_id |-> writer.snapshot_id,
                   manifest_list |-> ManifestListKey(writer.snapshot_id, writer.snapshot_uuid),
                   sequence_number |-> writer.table_metadata.last_sequence_number,
                   operation |-> "Append"]]

(* --------------------------------- state ------------------------------ *)

VARIABLES
    catalog,     \* the table metadata the catalog holds
    store,       \* the object store: key -> manifest list or manifest
    txn,         \* the two transactions: operation, base metadata, result
    nextId,      \* source of fresh snapshot ids and uuids
    lastExec,    \* the last execution: its base metadata and its puts
    lastCommit,  \* the last commit: what it found and what it left
    history,     \* the accepted commits, oldest first, with the files each
                 \* snapshot listed when it was committed
    tabular,     \* a Tabular handle on the relation: variant, identifier, metadata
    lastCall,    \* the last call on a handle (reload, manifests,
                 \* delete_all_table_files): its inputs and its result
    nodes        \* a SenderNode/ReceiverNode pair: its channels, its planning
                 \* and its streams

vars == <<catalog, store, txn, nextId, lastExec, lastCommit, history, tabular, lastCall, nodes>>

\* a table another writer has populated: one snapshot whose manifest holds
\* one file of region "EU", with its summary filled in
SeedFile == "e"

SeedEntry(fields) ==
    [status |-> "Added", snapshot_id |-> 0, sequence_number |-> Some(0),
     data_file |-> DataFile(SeedFile, fields)]

SeedManifest(fields) ==
    [manifest_path |-> ManifestKey(0, 0),
     manifest_length |-> BytesLen(<<SeedEntry(fields)>>),
     sequence_number |-> 0,
     min_sequence_number |-> 0,
     added_snapshot_id |-> 0,
     added_files_count |-> Some(1),
     added_rows_count |-> Some(RecordCountOf(SeedFile)),
     partitions |-> Some([i \in 1..Len(fields) |->
                            [contains_null |-> FALSE,
                             lower_bound |-> DataFile(SeedFile, fields).partition[i],
                             upper_bound |-> DataFile(SeedFile, fields).partition[i]]])]

EmptyTable(fields) ==
    [fields |-> fields,
     snapshots |-> <<>>,
     refs |-> <<>>,
     current_snapshot_id |-> None,
     last_sequence_number |-> 0]

SeededTable(fields) ==
    [fields |-> fields,
     snapshots |-> (0 :> [snapshot_id |-> 0, manifest_list |-> ManifestListKey(0, 0),
                          sequence_number |-> 0, operation |-> "Append"]),
     refs |-> ("main" :> [snapshot_id |-> 0, retention |-> DefaultRetention]),
     current_snapshot_id |-> Some(0),
     last_sequence_number |-> 0]

SeededStore(fields) ==
    (ManifestListKey(0, 0) :> <<SeedManifest(fields)>>)
    @@ (ManifestKey(0, 0) :> <<SeedEntry(fields)>>)

IdleTxn == [state |-> "idle"]

NoCall == [op |-> "none"]

\* no channel nodes in the plan
NoNodes == [planned |-> "none"]

NoExec == [ok |-> FALSE, op |-> "none"]

NoCommit == [op |-> "none"]

Init ==
    /\ \E fields \in PartitionSpecs :
         \/ catalog = EmptyTable(fields) /\ store = <<>>
         \/ catalog = SeededTable(fields) /\ store = SeededStore(fields)
    /\ txn = [t \in Txns |-> IdleTxn]
    /\ nextId = 1
    /\ lastExec = NoExec
    /\ lastCommit = NoCommit
    /\ history = <<>>
    /\ tabular = Tabular("Table", TableIdentifier, catalog)
    /\ lastCall = NoCall
    /\ nodes = NoNodes

(* -------------------------------- actions ----------------------------- *)

\* a transaction runs its operation against the table's metadata: the
\* manifests and the manifest list are put, the result is kept for commit
Execute(t, op, branch, files, r) ==
    /\ store' = ApplyPuts(store, r.puts, 1)
    /\ txn' = [txn EXCEPT ![t] =
                  IF r.ok
                  THEN [state |-> "executed", op |-> op, branch |-> branch, files |-> files,
                        base |-> catalog, requirement |-> r.requirement,
                        updates |-> r.updates]
                  ELSE [state |-> "failed"]]
    /\ nextId' = IF r.ok THEN nextId + 1 ELSE nextId
    /\ lastExec' = [ok |-> r.ok, op |-> op, branch |-> branch, files |-> files,
                    base |-> catalog, before |-> store, puts |-> r.puts, gets |-> r.gets,
                    err |-> r.err,
                    requirement |-> r.requirement, updates |-> r.updates]
    /\ lastCommit' = NoCommit
    /\ UNCHANGED <<catalog, history, tabular, lastCall, nodes>>

\* a transaction holds one pending result at a time
CanExecute(t) == txn[t].state # "executed" /\ nextId <= MaxOps

ExecuteAppend(t) ==
    /\ CanExecute(t)
    /\ \E branch \in Branches, files \in FileLists :
        \E r \in {ExecAppend(catalog, store, branch, files, nextId, nextId)} :
            Execute(t, "Append", branch, files, r)

ExecuteRewrite(t) ==
    /\ CanExecute(t)
    /\ \E branch \in Branches, files \in FileLists :
        \E keys \in KeyOrders(PartitionsOf(files, catalog.fields)) :
            \E r \in {ExecRewrite(catalog, store, branch, files, nextId, nextId, keys)} :
                Execute(t, "Rewrite", branch, files, r)

\* the references, snapshot ids, property entries, schemas and spec ids the
\* other operations are given
RefNames == {"main", "dev", "v1"}

SnapshotIds == 0..MaxOps

Retentions == {DefaultRetention, "tag"}

PropertyEntries == {<<>>, <<<<"owner", "x">>>>}

Schemas == {{}, {1, 2}}

SpecIds == {0, 1}

ExecuteSetSnapshotRef(t) ==
    /\ CanExecute(t)
    /\ \E key \in RefNames, id \in SnapshotIds, retention \in Retentions :
        \E r \in {ExecSetSnapshotRef(catalog, key, [snapshot_id |-> id, retention |-> retention])} :
            Execute(t, "SetSnapshotRef", Some(key),
                    <<[snapshot_id |-> id, retention |-> retention]>>, r)

ExecuteUpdateProperties(t) ==
    /\ CanExecute(t)
    /\ \E entries \in PropertyEntries :
        \E r \in {ExecUpdateProperties(catalog, entries)} :
            Execute(t, "UpdateProperties", None, <<>>, r)

ExecuteAddSchema(t) ==
    /\ CanExecute(t)
    /\ \E schema \in Schemas :
        \E r \in {ExecAddSchema(catalog, schema)} :
            Execute(t, "AddSchema", None, <<>>, r)

ExecuteSetDefaultSpec(t) ==
    /\ CanExecute(t)
    /\ \E spec_id \in SpecIds :
        \E r \in {ExecSetDefaultSpec(catalog, spec_id)} :
            Execute(t, "SetDefaultSpec", None, <<>>, r)

\* a variant that keeps the metadata the transaction was built on
TableAfterCommit_Keep(base, returned, accepted) == base

\* the metadata the Table handle holds once commit is over: the metadata
\* the catalog returned, or on a violation the metadata it held before
TableAfterCommit(base, returned, accepted) == IF accepted THEN returned ELSE base

\* what a commit leaves for inspection
CommitRecord(t, accepted) ==
    [op |-> txn[t].op, branch |-> txn[t].branch, files |-> txn[t].files,
     base |-> txn[t].base, accepted |-> accepted, before |-> catalog,
     requirement |-> txn[t].requirement, updates |-> txn[t].updates,
     violation |-> IF accepted THEN None ELSE txn[t].requirement,
     table |-> TableAfterCommit(txn[t].base, ApplyUpdates(catalog, txn[t].updates, 1),
                                accepted)]

\* the updates hold an AddSnapshot
AddsSnapshot(updates) == \E j \in 1..Len(updates) : updates[j].type = "AddSnapshot"

\* the snapshot an accepted or pending result adds
AddedSnapshot(updates) ==
    LET i == CHOOSE j \in 1..Len(updates) : updates[j].type = "AddSnapshot"
    IN  updates[i].snapshot

\* the file paths each manifest of a snapshot lists, manifest by manifest
Cover(st, snapshot) ==
    LET list == st[snapshot.manifest_list]
    IN  [i \in 1..Len(list) |->
            [k \in 1..Len(st[list[i].manifest_path]) |->
                st[list[i].manifest_path][k].data_file.file_path]]

\* what a transaction keeps once it is over
Settled(t, state) ==
    [state |-> state, op |-> txn[t].op, branch |-> txn[t].branch, base |-> txn[t].base]

\* commit: the catalog finds the requirement to hold and applies the updates
CommitAccept(t) ==
    /\ txn[t].state = "executed"
    /\ RequirementHolds(catalog, txn[t].requirement)
    /\ catalog' = ApplyUpdates(catalog, txn[t].updates, 1)
    /\ txn' = [txn EXCEPT ![t] = Settled(t, "committed")]
    /\ lastCommit' = CommitRecord(t, TRUE)
    /\ lastExec' = NoExec
    /\ history' = IF AddsSnapshot(txn[t].updates)
                   THEN Append(history,
                               [op |-> txn[t].op, branch |-> txn[t].branch,
                                files |-> txn[t].files,
                                cover |-> Cover(store, AddedSnapshot(txn[t].updates))])
                   ELSE history
    /\ UNCHANGED <<store, nextId, tabular, lastCall, nodes>>

\* commit: the catalog rejects the requirement; the violation is returned
CommitReject(t) ==
    /\ txn[t].state = "executed"
    /\ ~RequirementHolds(catalog, txn[t].requirement)
    /\ txn' = [txn EXCEPT ![t] = Settled(t, "rejected")]
    /\ lastCommit' = CommitRecord(t, FALSE)
    /\ lastExec' = NoExec
    /\ UNCHANGED <<catalog, store, nextId, history, tabular, lastCall, nodes>>

\* the commit future is dropped before the catalog call
Cancel(t) ==
    /\ txn[t].state = "executed"
    /\ txn' = [txn EXCEPT ![t] = [state |-> "cancelled"]]
    /\ lastExec' = NoExec
    /\ lastCommit' = NoCommit
    /\ UNCHANGED <<catalog, store, nextId, history, tabular, lastCall, nodes>>

Next ==
    \E t \in Txns :
        \/ ExecuteAppend(t)
        \/ ExecuteRewrite(t)
        \/ CommitAccept(t)
        \/ CommitReject(t)
        \/ Cancel(t)

Spec == Init /\ [][Next]_vars

\* one client stages and commits any of the six operations, one after the
\* other; nobody else commits in between, so no commit is rejected
Client == "A"

NextOps ==
    \/ ExecuteAppend(Client)
    \/ ExecuteRewrite(Client)
    \/ ExecuteSetSnapshotRef(Client)
    \/ ExecuteUpdateProperties(Client)
    \/ ExecuteAddSchema(Client)
    \/ ExecuteSetDefaultSpec(Client)
    \/ CommitAccept(Client)
    \/ Cancel(Client)

SpecOps == Init /\ [][NextOps]_vars

\* the seeded table with one record of its manifest, or of its manifest
\* list, damaged on storage
DamagedManifestStore(fields) ==
    (ManifestListKey(0, 0) :> <<SeedManifest(fields)>>)
    @@ (ManifestKey(0, 0) :> <<SeedEntry(fields), Undecodable>>)

DamagedListStore(fields) ==
    (ManifestListKey(0, 0) :> <<SeedManifest(fields), Undecodable>>)
    @@ (ManifestKey(0, 0) :> <<SeedEntry(fields)>>)

InitDamaged ==
    /\ \E fields \in PartitionSpecs :
         /\ catalog = SeededTable(fields)
         /\ store \in {DamagedManifestStore(fields), DamagedListStore(fields)}
    /\ txn = [t \in Txns |-> IdleTxn]
    /\ nextId = 1
    /\ lastExec = NoExec
    /\ lastCommit = NoCommit
    /\ history = <<>>
    /\ tabular = Tabular("Table", TableIdentifier, catalog)
    /\ lastCall = NoCall
    /\ nodes = NoNodes

\* one client appends to the damaged table and commits
NextDamaged ==
    \/ ExecuteAppend(Client)
    \/ CommitAccept(Client)
    \/ Cancel(Client)

SpecDamaged == InitDamaged /\ [][NextDamaged]_vars

\* what catalog.load_table can answer: an error, or a relation of any
\* variant that carries the metadata the catalog holds
LoadTableResponses ==
    {[ok |-> FALSE, err |-> "External"]}
    \cup {[ok |-> TRUE, tabular |-> Tabular(v, id, catalog)] :
            v \in Variants, id \in Identifiers}

\* the handle is reloaded from the catalog
Reload ==
    /\ \E response \in LoadTableResponses :
         /\ tabular' = reload(tabular, response).self
         /\ lastCall' = [op |-> "reload", before |-> tabular, response |-> response,
                           ok |-> reload(tabular, response).ok,
                           err |-> reload(tabular, response).err]
    /\ UNCHANGED <<catalog, store, txn, nextId, lastExec, lastCommit, history, nodes>>

\* a handle of any variant on the relation, unpartitioned, held while one
\* client appends and commits
InitReload ==
    /\ \/ catalog = EmptyTable(<<>>) /\ store = <<>>
       \/ catalog = SeededTable(<<>>) /\ store = SeededStore(<<>>)
    /\ txn = [t \in Txns |-> IdleTxn]
    /\ nextId = 1
    /\ lastExec = NoExec
    /\ lastCommit = NoCommit
    /\ history = <<>>
    /\ \E v \in Variants : tabular = Tabular(v, TableIdentifier, catalog)
    /\ lastCall = NoCall
    /\ nodes = NoNodes

NextReload ==
    \/ ExecuteAppend(Client)
    \/ CommitAccept(Client)
    \/ Reload

SpecReload == InitReload /\ [][NextReload]_vars

\* the client asks its table for the manifests between two snapshots
Manifests ==
    /\ \E start, end \in {None} \cup {Some(id) : id \in DOMAIN catalog.snapshots} :
         lastCall' = [op |-> "manifests", start |-> start, end |-> end,
                      meta |-> catalog, before |-> store,
                      ok |-> manifests(catalog, store, start, end).ok,
                      manifests |-> manifests(catalog, store, start, end).manifests]
    /\ UNCHANGED <<catalog, store, txn, nextId, lastExec, lastCommit, history, tabular, nodes>>

\* the table is dropped while no transaction is pending: its files are
\* deleted
DeleteAllTableFiles ==
    /\ \A t \in Txns : txn[t].state # "executed"
    /\ store' = Deleted(store, delete_all_table_files(catalog, store).deleted)
    /\ lastCall' = [op |-> "delete_all_table_files", meta |-> catalog, before |-> store,
                    ok |-> delete_all_table_files(catalog, store).ok,
                    deleted |-> delete_all_table_files(catalog, store).deleted]
    /\ UNCHANGED <<catalog, txn, nextId, lastExec, lastCommit, history, tabular, nodes>>

\* one client appends and commits, reads the manifests of its table and
\* drops it
NextTable ==
    \/ ExecuteAppend(Client)
    \/ CommitAccept(Client)
    \/ Manifests
    \/ DeleteAllTableFiles

SpecTable == Init /\ [][NextTable]_vars

\* the groups of files a caller hands to the writer, none of them empty
FileGroups == SeqsUpTo(FileLists \ {<<>>}, MaxGroups)

\* a ManifestListWriter is made for the table and writes one new manifest
\* for each group of entries
WriteNewManifests ==
    /\ nextId <= MaxOps
    /\ \E branch \in Branches, groups \in FileGroups :
        \E writer \in {append_manifest_entries_to_new_manifests(
                          ManifestListWriter(catalog, branch, nextId, nextId),
                          [g \in DOMAIN groups |->
                              [k \in DOMAIN groups[g] |->
                                  AppendEntry(catalog, nextId, groups[g][k])]],
                          1)} :
            /\ store' = ApplyPuts(store, writer.puts, 1)
            /\ lastCall' = [op |-> "append_manifest_entries_to_new_manifests",
                            groups |-> groups, puts |-> writer.puts,
                            manifests |-> writer.manifest_list_writer]
    /\ nextId' = nextId + 1
    /\ UNCHANGED <<catalog, txn, lastExec, lastCommit, history, tabular, nodes>>

\* one client appends and commits through the executor, and writes
\* manifests through a ManifestListWriter
NextWriter ==
    \/ ExecuteAppend(Client)
    \/ ExecuteRewrite(Client)
    \/ CommitAccept(Client)
    \/ WriteNewManifests

SpecWriter == Init /\ [][NextWriter]_vars

\* a ManifestListWriter is made for the table, writes one new manifest for
\* each group of entries and is finished
WriteAndFinish ==
    /\ nextId <= MaxOps
    /\ \E branch \in Branches, groups \in FileGroups :
        \E writer \in {append_manifest_entries_to_new_manifests(
                          ManifestListWriter(catalog, branch, nextId, nextId),
                          [g \in DOMAIN groups |->
                              [k \in DOMAIN groups[g] |->
                                  AppendEntry(catalog, nextId, groups[g][k])]],
                          1)} :
            /\ store' = ApplyPuts(store, Append(writer.puts, finish(writer).put), 1)
            /\ lastCall' = [op |-> "finish", base |-> catalog, branch |-> branch,
                            manifests |-> writer.manifest_list_writer,
                            snapshot |-> finish(writer).snapshot]
    /\ nextId' = nextId + 1
    /\ UNCHANGED <<catalog, txn, lastExec, lastCommit, history, tabular, nodes>>

\* one client appends and commits through the executor, and builds
\* snapshots through a ManifestListWriter
NextFinish ==
    \/ ExecuteAppend(Client)
    \/ CommitAccept(Client)
    \/ WriteAndFinish

SpecFinish == Init /\ [][NextFinish]_vars

\* the files whose entries the split planner is handed: at least one
SplitInputs == SeqsUpTo(Paths \cup {SeedFile}, MaxSplitEntries) \ {<<>>}

\* the split planner is run on the entries of some files of the table,
\* with their bounding rectangle
SplitDatafiles ==
    /\ \E files \in SplitInputs, n_splits \in 0..MaxSplitDepth :
        \E entries \in {[k \in DOMAIN files |-> AppendEntry(catalog, nextId, files[k])]} :
            lastCall' = [op |-> "split_datafiles", entries |-> entries, n_splits |-> n_splits,
                         groups |-> split_datafiles(
                                       entries,
                                       bounding_partition_values(files, catalog.fields).rect,
                                       n_splits)]
    /\ UNCHANGED <<catalog, store, txn, nextId, lastExec, lastCommit, history, tabular, nodes>>

\* a partitioned table whose client plans splits
InitSplit ==
    /\ \E fields \in PartitionSpecs \ {<<>>} :
         \/ catalog = EmptyTable(fields) /\ store = <<>>
         \/ catalog = SeededTable(fields) /\ store = SeededStore(fields)
    /\ txn = [t \in Txns |-> IdleTxn]
    /\ nextId = 1
    /\ lastExec = NoExec
    /\ lastCommit = NoCommit
    /\ history = <<>>
    /\ tabular = Tabular("Table", TableIdentifier, catalog)
    /\ lastCall = NoCall
    /\ nodes = NoNodes

NextSplit == SplitDatafiles

SpecSplit == InitSplit /\ [][NextSplit]_vars

\* a table another writer has populated with up to MaxManifests manifests:
\* each lists the file of region "EU", the file of region "US" or both,
\* and carries its counts or, as format version 1 allows, leaves them out
SeedFileUS == "f"

SeedFileLists == {<<SeedFile>>, <<SeedFileUS>>, <<SeedFile, SeedFileUS>>}

ListShapes == SeqsUpTo(SeedFileLists \X BOOLEAN, MaxManifests)

SeedEntryOf(fields, p) ==
    [status |-> "Added", snapshot_id |-> 0, sequence_number |-> Some(0),
     data_file |-> DataFile(p, fields)]

SeedEntriesOf(fields, files) == [k \in DOMAIN files |-> SeedEntryOf(fields, files[k])]

SeedManifestOf(fields, i, files, counted) ==
    [manifest_path |-> ManifestKey(0, i),
     manifest_length |-> BytesLen(SeedEntriesOf(fields, files)),
     sequence_number |-> 0,
     min_sequence_number |-> 0,
     added_snapshot_id |-> 0,
     added_files_count |-> IF counted THEN Some(Len(files)) ELSE None,
     added_rows_count |->
        IF counted THEN Some(SumSeq([k \in DOMAIN files |-> RecordCountOf(files[k])]))
        ELSE None,
     partitions |-> Some([d \in 1..Len(fields) |->
                            [contains_null |-> FALSE,
                             lower_bound |->
                                Some(bounding_partition_values(files, fields).rect.min[d]),
                             upper_bound |->
                                Some(bounding_partition_values(files, fields).rect.max[d])]])]

ShapedStore(fields, shape) ==
    (ManifestListKey(0, 0) :>
        [i \in DOMAIN shape |-> SeedManifestOf(fields, i - 1, shape[i][1], shape[i][2])])
    @@ [key \in {ManifestKey(0, i - 1) : i \in DOMAIN shape} |->
            SeedEntriesOf(fields, shape[key[3] + 1][1])]

InitSelect ==
    /\ \E fields \in PartitionSpecs, shape \in ListShapes :
         /\ catalog = SeededTable(fields)
         /\ store = ShapedStore(fields, shape)
    /\ txn = [t \in Txns |-> IdleTxn]
    /\ nextId = 1
    /\ lastExec = NoExec
    /\ lastCommit = NoCommit
    /\ history = <<>>
    /\ tabular = Tabular("Table", TableIdentifier, catalog)
    /\ lastCall = NoCall
    /\ nodes = NoNodes

\* one client appends to the populated table
NextSelect == ExecuteAppend(Client)

SpecSelect == InitSelect /\ [][NextSelect]_vars

\* a client appends again and again to a table that starts empty
AppendAgain ==
    /\ txn[Client].state # "executed"
    /\ nextId <= MaxAppends
    /\ \E branch \in Branches, files \in FileLists :
        \E r \in {ExecAppend(catalog, store, branch, files, nextId, nextId)} :
            Execute(Client, "Append", branch, files, r)

InitEmpty ==
    /\ \E fields \in PartitionSpecs : catalog = EmptyTable(fields)
    /\ store = <<>>
    /\ txn = [t \in Txns |-> IdleTxn]
    /\ nextId = 1
    /\ lastExec = NoExec
    /\ lastCommit = NoCommit
    /\ history = <<>>
    /\ tabular = Tabular("Table", TableIdentifier, catalog)
    /\ lastCall = NoCall
    /\ nodes = NoNodes

NextAppends ==
    \/ AppendAgain
    \/ CommitAccept(Client)

SpecAppends == InitEmpty /\ [][NextAppends]_vars

\* what the planner may find elected: no manifest, or a manifest whose
\* added_files_count is absent or at most the count of the whole list
ElectedCounts(file_count) ==
    {None} \cup {Some([added_files_count |-> c]) :
                    c \in {None} \cup {Some(k) : k \in 0..file_count}}

\* limit, new_file_count and n_splits are computed, once, for a manifest
\* list that counts file_count files and for n new files
PlanSplits ==
    /\ lastCall = NoCall
    /\ \E file_count \in 0..MaxFileCount, n \in 1..MaxNewFiles :
        \E manifest \in ElectedCounts(file_count) :
            \E files \in {[k \in 1..n |-> "a"]} :
                lastCall' = [op |-> "plan",
                             file_count |-> file_count,
                             manifest |-> manifest,
                             files |-> files,
                             limit |-> Limit(file_count, Len(files)),
                             new_file_count |-> NewFileCount(manifest, files),
                             n_splits |-> NSplits(NewFileCount(manifest, files),
                                                  Limit(file_count, Len(files)))]
    /\ UNCHANGED <<catalog, store, txn, nextId, lastExec, lastCommit, history, tabular, nodes>>

NextPlan == PlanSplits

SpecPlan == InitEmpty /\ [][NextPlan]_vars

\* the sequence numbers an entry may be stored with: none, or one of those
\* the table has seen
StoredSequenceNumbers == {None} \cup {Some(n) : n \in 1..MaxStored}

\* the manifests another writer has left: up to MaxStored manifests with a
\* sequence number each and up to MaxStored entries
StoredShapes ==
    SeqsUpTo((1..MaxStored) \X SeqsUpTo(StoredSequenceNumbers, MaxStored), MaxStored)

\* the data file of entry k of manifest i
StoredFile(i, k) == <<<<"a", "b">>, <<"e", "f">>>>[i][k]

StoredEntry(i, k, sequence_number) ==
    [status |-> "Added", snapshot_id |-> 0, sequence_number |-> sequence_number,
     data_file |-> DataFile(StoredFile(i, k), <<>>)]

StoredManifest(i, shape) ==
    [SeedManifestOf(<<>>, i - 1, [k \in DOMAIN shape[2] |-> StoredFile(i, k)], TRUE)
        EXCEPT !.sequence_number = shape[1]]

StoredStore(shapes) ==
    (ManifestListKey(0, 0) :> [i \in DOMAIN shapes |-> StoredManifest(i, shapes[i])])
    @@ [key \in {ManifestKey(0, i - 1) : i \in DOMAIN shapes} |->
            [k \in DOMAIN shapes[key[3] + 1][2] |->
                StoredEntry(key[3] + 1, k, shapes[key[3] + 1][2][k])]]

\* the bounds of a sequence-number range and the filter vectors a caller
\* may pass
RangeBounds == {None} \cup {Some(n) : n \in 0..MaxStored}

FilterVectors == {None} \cup {Some(v) : v \in SeqsUpTo(BOOLEAN, MaxStored)}

\* a reader asks, once, for the data files of the manifests of the
\* current snapshot
Datafiles ==
    /\ lastCall = NoCall
    /\ \E filter \in FilterVectors, start \in RangeBounds, end \in RangeBounds :
        lastCall' = [op |-> "datafiles",
                     manifests |-> store[ManifestListKey(0, 0)],
                     filter |-> filter, start |-> start, end |-> end,
                     result |-> datafiles(store, store[ManifestListKey(0, 0)], filter,
                                          <<start, end>>)]
    /\ UNCHANGED <<catalog, store, txn, nextId, lastExec, lastCommit, history, tabular, nodes>>

InitDatafiles ==
    /\ catalog = SeededTable(<<>>)
    /\ \E shapes \in StoredShapes : store = StoredStore(shapes)
    /\ txn = [t \in Txns |-> IdleTxn]
    /\ nextId = 1
    /\ lastExec = NoExec
    /\ lastCommit = NoCommit
    /\ history = <<>>
    /\ tabular = Tabular("Table", TableIdentifier, catalog)
    /\ lastCall = NoCall
    /\ nodes = NoNodes

NextDatafiles == Datafiles

SpecDatafiles == InitDatafiles /\ [][NextDatafiles]_vars

\* the phases of delete_all_table_files, in order
Phases == <<"data_files", "manifests", "manifest_lists">>

\* what a phase has to delete once everything the phase reads is known
PhaseKeys(phase, meta, list) ==
    IF phase = "manifests" THEN {list[i].manifest_path : i \in DOMAIN list}
    ELSE IF phase = "manifest_lists"
    THEN {meta.snapshots[id].manifest_list : id \in DOMAIN meta.snapshots}
    ELSE {}

\* the call has returned: Ok after the last phase, Err or a panic before
Returned(call, phase) == [call EXCEPT !.phase = phase, !.todo = {}, !.inflight = {}]

\* delete_all_table_files is called: without a current snapshot it
\* returns Ok at once, else the manifest list is read and the stream of
\* data files is set up
StartDelete ==
    /\ lastCall = NoCall
    /\ \E start \in {[op |-> "delete", meta |-> catalog, manifests |-> <<>>, fetched |-> 0,
                      phase |-> "data_files", todo |-> {}, inflight |-> {},
                      completed |-> NothingDeleted, issued |-> NothingDeleted,
                      failed |-> FALSE]} :
        lastCall' =
            IF current_snapshot(catalog, None) = None THEN Returned(start, "done")
            ELSE IF ~read_snapshot(Unwrap(current_snapshot(catalog, None)), store).ok
                    \/ ~CollectOk(read_snapshot(Unwrap(current_snapshot(catalog, None)),
                                                store).manifests).ok
            THEN Returned([start EXCEPT !.failed = TRUE], "failed")
            ELSE [start EXCEPT !.manifests =
                      read_snapshot(Unwrap(current_snapshot(catalog, None)), store).manifests]
    /\ UNCHANGED <<catalog, store, txn, nextId, lastExec, lastCommit, history, tabular, nodes>>

Deleting == lastCall.op = "delete" /\ lastCall.phase \in {Phases[i] : i \in DOMAIN Phases}

\* the stream of data files fetches the next manifest; its entries are due
\* for deletion. A manifest that is gone or does not decode ends the call.
FetchManifest ==
    /\ Deleting
    /\ lastCall.phase = "data_files"
    /\ lastCall.fetched < Len(lastCall.manifests)
    /\ \E path \in {lastCall.manifests[lastCall.fetched + 1].manifest_path} :
        lastCall' =
            IF path \notin DOMAIN store \/ OkRecords(store[path]) # store[path]
            THEN Returned([lastCall EXCEPT !.failed = TRUE], "failed")
            ELSE [lastCall EXCEPT
                    !.fetched = @ + 1,
                    !.todo = @ \cup {store[path][k].data_file.file_path : k \in DOMAIN store[path]}]
    /\ UNCHANGED <<catalog, store, txn, nextId, lastExec, lastCommit, history, tabular, nodes>>

\* try_for_each_concurrent(None, ..): a delete of the phase is issued
\* while others are in flight
IssueDelete ==
    /\ Deleting
    /\ \E key \in lastCall.todo \ (lastCall.inflight \cup lastCall.completed[lastCall.phase]) :
        lastCall' = [lastCall EXCEPT
                        !.inflight = @ \cup {key},
                        !.issued[lastCall.phase] =
                            @ \cup {[key |-> key, completed |-> lastCall.completed,
                                     failed |-> lastCall.failed]}]
    /\ UNCHANGED <<catalog, store, txn, nextId, lastExec, lastCommit, history, tabular, nodes>>

\* a delete in flight completes; if the object store reports an error the
\* `?` after the phase's await returns it and the rest is dropped
CompleteDelete ==
    /\ Deleting
    /\ \E key \in lastCall.inflight, ok \in BOOLEAN :
        IF ok
        THEN /\ lastCall' = [lastCall EXCEPT
                                !.inflight = @ \ {key},
                                !.completed[lastCall.phase] = @ \cup {key}]
             /\ store' = IF lastCall.phase = "data_files" THEN store
                         ELSE [k \in DOMAIN store \ {key} |-> store[k]]
        ELSE /\ lastCall' = Returned([lastCall EXCEPT !.failed = TRUE], "failed")
             /\ store' = store
    /\ UNCHANGED <<catalog, txn, nextId, lastExec, lastCommit, history, tabular, nodes>>

\* a variant that does not wait for the deletes in flight
PhaseReady_Eager(call) ==
    /\ call.phase = "data_files" => call.fetched = Len(call.manifests)
    /\ call.todo \subseteq (call.completed[call.phase] \cup call.inflight)

\* the await of a phase returns Ok once the stream is exhausted and every
\* delete has completed
PhaseReady(call) ==
    /\ call.phase = "data_files" => call.fetched = Len(call.manifests)
    /\ call.todo \subseteq call.completed[call.phase]
    /\ call.inflight = {}

\* the next phase starts, or the call returns Ok
AdvancePhase ==
    /\ Deleting
    /\ PhaseReady(lastCall)
    /\ \E i \in DOMAIN Phases :
        /\ Phases[i] = lastCall.phase
        /\ lastCall' =
              IF i = Len(Phases) THEN Returned(lastCall, "done")
              ELSE [lastCall EXCEPT
                      !.phase = Phases[i + 1],
                      !.inflight = {},
                      !.todo = PhaseKeys(Phases[i + 1], lastCall.meta, lastCall.manifests)]
    /\ UNCHANGED <<catalog, store, txn, nextId, lastExec, lastCommit, history, tabular, nodes>>

\* a populated table is dropped: its files are deleted step by step
NextDelete ==
    \/ StartDelete
    \/ FetchManifest
    \/ IssueDelete
    \/ CompleteDelete
    \/ AdvancePhase

SpecDelete == InitSelect /\ [][NextDelete]_vars

(* ---------------------------- channel nodes -------------------------- *)

\* the partitions of the sender's input and the tasks that may plan the
\* ReceiverNode or execute a partition of the PhysicalReceiverNode
Partitions == 1..MaxPartitions

Tasks == {"T1", "T2"}

\* what the input stream of a partition produces: for each item, whether
\* it is Ok(batch) (TRUE) or Err (FALSE); batch i is the i-th item
InputStreams == SeqsUpTo(BOOLEAN, MaxBatches)

Batch(i) == [ok |-> TRUE, batch |-> i]

ErrItem(err) == [ok |-> FALSE, err |-> err]

\* channel_nodes(plan): the planning channel is open and empty, the
\* ReceiverNode holds its receiving end; nothing is planned or executed
channel_nodes(input) ==
    [planned |-> "no",
     input |-> input,
     channel |-> [queue |-> <<>>, closed |-> FALSE],
     receiver |-> TRUE,
     sender_panics |-> 0,
     planner |-> [t \in Tasks |-> "idle"],
     receivers |-> [p \in Partitions |-> TRUE],
     unbounded |-> [p \in Partitions |-> [queue |-> <<>>, closed |-> FALSE]],
     sender_stream |-> [p \in Partitions |-> [state |-> "none", pos |-> 0]],
     downstream |-> [p \in Partitions |-> <<>>],
     executor |-> [p \in Partitions |-> [t \in Tasks |-> "idle"]],
     receiver_stream |-> [p \in Partitions |-> [state |-> "none", yielded |-> <<>>]]]

\* a variant of Option::take that leaves the value in place
take_Keep(option) == [taken |-> option, left |-> option]

\* Option::take under the mutex: the value, if any, and None in its place
take(option) == [taken |-> option, left |-> FALSE]

\* plan_extension for the SenderNode: the unbounded channels are made, the
\* message is sent on the planning channel and the channel closed; on a
\* closed channel the send fails and unwrap panics
PlanSender ==
    /\ nodes.planned # "none"
    /\ nodes.sender_panics = 0
    /\ nodes' =
          IF nodes.channel.closed
          THEN [nodes EXCEPT !.sender_panics = @ + 1]
          ELSE [nodes EXCEPT !.planned = "sender",
                             !.channel = [queue |-> <<"receivers">>, closed |-> TRUE]]
    /\ UNCHANGED <<catalog, store, txn, nextId, lastExec, lastCommit, history, tabular, lastCall>>

\* plan_extension for the ReceiverNode, first half: the receiving end is
\* taken out of the node, or the task panics with "Fork node can only be
\* executed once."
PlanReceiverTake(t) ==
    /\ nodes.planned # "none"
    /\ nodes.planner[t] = "idle"
    /\ nodes' = [nodes EXCEPT
                    !.receiver = take(nodes.receiver).left,
                    !.planner[t] = IF take(nodes.receiver).taken THEN "waiting" ELSE "panicked"]
    /\ UNCHANGED <<catalog, store, txn, nextId, lastExec, lastCommit, history, tabular, lastCall>>

\* plan_extension for the ReceiverNode, second half: receiver.next().await
\* returns the message once it is there, None (and the task panics) if
\* the channel is closed and empty, and is pending otherwise
PlanReceiverNext(t) ==
    /\ nodes.planned # "none"
    /\ nodes.planner[t] = "waiting"
    /\ nodes.channel.queue # <<>> \/ nodes.channel.closed
    /\ nodes' =
          IF nodes.channel.queue # <<>>
          THEN [nodes EXCEPT !.channel.queue = Tail(@), !.planner[t] = "planned"]
          ELSE [nodes EXCEPT !.planner[t] = "panicked"]
    /\ UNCHANGED <<catalog, store, txn, nextId, lastExec, lastCommit, history, tabular, lastCall>>

\* PhysicalSenderNode::execute(partition): the input is executed and
\* wrapped; each partition is executed once
SenderExecute(p) ==
    /\ nodes.planned = "sender"
    /\ nodes.sender_stream[p].state = "none"
    /\ nodes' = [nodes EXCEPT !.sender_stream[p].state = "poll"]
    /\ UNCHANGED <<catalog, store, txn, nextId, lastExec, lastCommit, history, tabular, lastCall>>

\* RecordBatchStreamSender::poll_next: at the end of the input the channel
\* is closed; an Err of the input is passed on; for a batch the and_then
\* future is started
poll_next(n, p) ==
    LET s == n.sender_stream[p]
    IN  IF s.pos = Len(n.input[p])
        THEN [n EXCEPT !.sender_stream[p].state = "ended", !.unbounded[p].closed = TRUE]
        ELSE IF n.input[p][s.pos + 1]
        THEN [n EXCEPT !.sender_stream[p] = [state |-> "send", pos |-> s.pos + 1]]
        ELSE [n EXCEPT !.sender_stream[p].pos = s.pos + 1,
                       !.downstream[p] = Append(@, ErrItem("input"))]

SenderPoll(p) ==
    /\ nodes.planned = "sender"
    /\ nodes.sender_stream[p].state = "poll"
    /\ nodes' = poll_next(nodes, p)
    /\ UNCHANGED <<catalog, store, txn, nextId, lastExec, lastCommit, history, tabular, lastCall>>

\* a variant that does not send the batch
send_Skip(n, p) == [n EXCEPT !.sender_stream[p].state = "yield"]

\* unbounded_sender.send(Ok(batch.clone())).await: the batch is enqueued,
\* or the send fails on a closed channel and the error is what the stream
\* yields
send(n, p) ==
    IF n.unbounded[p].closed
    THEN [n EXCEPT !.sender_stream[p].state = "poll",
                   !.downstream[p] = Append(@, ErrItem("External"))]
    ELSE [n EXCEPT !.sender_stream[p].state = "yield",
                   !.unbounded[p].queue = Append(@, Batch(n.sender_stream[p].pos))]

SenderSend(p) ==
    /\ nodes.planned = "sender"
    /\ nodes.sender_stream[p].state = "send"
    /\ nodes' = send(nodes, p)
    /\ UNCHANGED <<catalog, store, txn, nextId, lastExec, lastCommit, history, tabular, lastCall>>

\* Ok(batch): the batch is yielded downstream
SenderYield(p) ==
    /\ nodes.planned = "sender"
    /\ nodes.sender_stream[p].state = "yield"
    /\ nodes' = [nodes EXCEPT !.sender_stream[p].state = "poll",
                              !.downstream[p] = Append(@, Batch(nodes.sender_stream[p].pos))]
    /\ UNCHANGED <<catalog, store, txn, nextId, lastExec, lastCommit, history, tabular, lastCall>>

\* PhysicalReceiverNode::execute(partition) by a task, once the node has
\* been planned: the receiver of the partition is taken, or the task
\* panics with "Fork node can only be executed once."
ReceiverExecute(p, t) ==
    /\ nodes.planned # "none"
    /\ \E u \in Tasks : nodes.planner[u] = "planned"
    /\ nodes.executor[p][t] = "idle"
    /\ nodes' = [nodes EXCEPT
                    !.receivers[p] = take(nodes.receivers[p]).left,
                    !.executor[p][t] =
                        IF take(nodes.receivers[p]).taken THEN "streaming" ELSE "panicked",
                    !.receiver_stream[p].state =
                        IF take(nodes.receivers[p]).taken THEN "open" ELSE @]
    /\ UNCHANGED <<catalog, store, txn, nextId, lastExec, lastCommit, history, tabular, lastCall>>

\* the receiver stream is polled: the next batch of the queue, the end of
\* the stream if the channel is closed and empty, pending otherwise
ReceiverPoll(p) ==
    /\ nodes.planned # "none"
    /\ nodes.receiver_stream[p].state = "open"
    /\ nodes.unbounded[p].queue # <<>> \/ nodes.unbounded[p].closed
    /\ nodes' =
          IF nodes.unbounded[p].queue # <<>>
          THEN [nodes EXCEPT !.unbounded[p].queue = Tail(@),
                             !.receiver_stream[p].yielded = Append(@, nodes.unbounded[p].queue[1])]
          ELSE [nodes EXCEPT !.receiver_stream[p].state = "ended"]
    /\ UNCHANGED <<catalog, store, txn, nextId, lastExec, lastCommit, history, tabular, lastCall>>

\* a plan with one SenderNode/ReceiverNode pair
InitNodes ==
    /\ catalog = EmptyTable(<<>>)
    /\ store = <<>>
    /\ txn = [t \in Txns |-> IdleTxn]
    /\ nextId = 1
    /\ lastExec = NoExec
    /\ lastCommit = NoCommit
    /\ history = <<>>
    /\ tabular = Tabular("Table", TableIdentifier, catalog)
    /\ lastCall = NoCall
    /\ \E input \in [Partitions -> InputStreams] : nodes = channel_nodes(input)

NextNodes ==
    \/ PlanSender
    \/ \E t \in Tasks : PlanReceiverTake(t)
    \/ \E t \in Tasks : PlanReceiverNext(t)
    \/ \E p \in Partitions : SenderExecute(p)
    \/ \E p \in Partitions : SenderPoll(p)
    \/ \E p \in Partitions : SenderSend(p)
    \/ \E p \in Partitions : SenderYield(p)
    \/ \E p \in Partitions, t \in Tasks : ReceiverExecute(p, t)
    \/ \E p \in Partitions : ReceiverPoll(p)

SpecNodes == InitNodes /\ [][NextNodes]_vars

(* ------------------------ vocabulary of the claims -------------------- *)

Range(f) == {f[x] : x \in DOMAIN f}

\* an execution of Append or Rewrite has just returned Ok
Executed(op) == lastExec.ok /\ lastExec.op = op

ExecutedAny == lastExec.ok

\* the catalog has just accepted the commit of an operation
Accepted(op) == lastCommit.op = op /\ lastCommit.accepted

AcceptedAny == lastCommit.op # "none" /\ lastCommit.accepted

\* the snapshot the branch pointed to in a metadata, through refs
Tip(meta, branch) ==
    IF RefName(branch) \in DOMAIN meta.refs
       /\ meta.refs[RefName(branch)].snapshot_id \in DOMAIN meta.snapshots
    THEN Some(meta.snapshots[meta.refs[RefName(branch)].snapshot_id])
    ELSE None

\* the manifest list and the manifests of the snapshots of a metadata
CommittedKeys(meta, st) ==
    UNION {{s.manifest_list}
           \cup (IF s.manifest_list \in DOMAIN st
                 THEN {st[s.manifest_list][i].manifest_path : i \in DOMAIN st[s.manifest_list]}
                 ELSE {})
           : s \in Range(meta.snapshots)}

PutKeys(puts) == {puts[i].key : i \in DOMAIN puts}

\* the last put of an execution is its manifest list; the entries of that
\* list whose manifest the execution put are the ones it wrote or rewrote
WrittenList == lastExec.puts[Len(lastExec.puts)].val

WrittenManifests ==
    {m \in Range(WrittenList) : m.manifest_path \in PutKeys(lastExec.puts)}

\* the entries stored in a written manifest
StoredEntries(m) == store[m.manifest_path]

AddedEntries(m) == SelectSeq(StoredEntries(m), LAMBDA e : e.status = "Added")

(* -------------------------------- claims ------------------------------ *)

\* C1: when two transactions execute an Append or Rewrite on the same
\* branch against the same base metadata and are committed one after the
\* other, at most one of the two commits succeeds (whether or not the
\* branch has a snapshot in the base metadata).
C1_AtMostOneCommitSucceeds ==
    ~(/\ txn["A"].state = "committed"
      /\ txn["B"].state = "committed"
      /\ txn["A"].base = txn["B"].base
      /\ RefName(txn["A"].branch) = RefName(txn["B"].branch))

\* C2: no execution of Append or Rewrite puts to an object-store key that
\* is the manifest list or a manifest of a snapshot of the metadata it ran
\* against.
C2_CommittedFilesNotOverwritten ==
    ExecutedAny =>
        PutKeys(lastExec.puts) \cap CommittedKeys(lastExec.base, lastExec.before) = {}

\* C3: for every committed Append or Rewrite on a branch, the new
\* snapshot's sequence number is strictly greater than the sequence number
\* of the snapshot the branch pointed to immediately before.
C3_SequenceNumbersIncrease ==
    (AcceptedAny /\ IsSome(Tip(lastCommit.before, lastCommit.branch))) =>
        AddedSnapshot(lastCommit.updates).sequence_number
            > Unwrap(Tip(lastCommit.before, lastCommit.branch)).sequence_number

\* C4: Append on a branch emits exactly AddSnapshot{S} followed by
\* SetSnapshotRef{branch -> S.snapshot_id, default retention}, and after
\* the catalog has applied them the branch points to the snapshot just
\* added.
C4_AppendUpdates ==
    /\ Executed("Append") =>
          /\ Len(lastExec.updates) = 2
          /\ lastExec.updates[1].type = "AddSnapshot"
          /\ lastExec.updates[2].type = "SetSnapshotRef"
          /\ lastExec.updates[2].ref_name = RefName(lastExec.branch)
          /\ lastExec.updates[2].snapshot_reference =
                [snapshot_id |-> lastExec.updates[1].snapshot.snapshot_id,
                 retention |-> DefaultRetention]
    /\ Accepted("Append") =>
          /\ RefName(lastCommit.branch) \in DOMAIN catalog.refs
          /\ catalog.refs[RefName(lastCommit.branch)].snapshot_id
                = lastCommit.updates[1].snapshot.snapshot_id
          /\ lastCommit.updates[1].snapshot.snapshot_id \in DOMAIN catalog.snapshots

\* C4 happens: an Append on the branch "dev" has been accepted on a table
\* whose main branch already had a snapshot.
C4_Witness ==
    /\ Accepted("Append")
    /\ lastCommit.branch = Some("dev")
    /\ IsSome(lastCommit.before.current_snapshot_id)

\* C5: the snapshot produced by Append on a branch has the sequence number
\* of the branch's previous snapshot plus 1, or 0 when the branch has no
\* previous snapshot.
C5_AppendSequenceNumber ==
    Executed("Append") =>
        AddedSnapshot(lastExec.updates).sequence_number
            = (IF IsSome(Tip(lastExec.base, lastExec.branch))
               THEN Unwrap(Tip(lastExec.base, lastExec.branch)).sequence_number + 1
               ELSE 0)

\* C5 happens: an Append ran on a branch whose previous snapshot had a
\* sequence number above 0.
C5_Witness ==
    /\ Executed("Append")
    /\ IsSome(Tip(lastExec.base, lastExec.branch))
    /\ Unwrap(Tip(lastExec.base, lastExec.branch)).sequence_number > 0

\* C6: for every manifest-list entry that Append or Rewrite writes or
\* rewrites, added_files_count equals the number of entries with status
\* Added stored in that manifest file.
C6_AddedFilesCount ==
    ExecutedAny =>
        \A m \in WrittenManifests :
            m.added_files_count = Some(Len(AddedEntries(m)))

\* C7: for every manifest-list entry that Append or Rewrite writes or
\* rewrites, added_rows_count equals the sum of record_count over the Added
\* entries stored in that manifest file.
C7_AddedRowsCount ==
    ExecutedAny =>
        \A m \in WrittenManifests :
            m.added_rows_count
                = Some(SumSeq([k \in 1..Len(AddedEntries(m)) |->
                                  AddedEntries(m)[k].data_file.record_count]))

\* a partition summary bounds a value: both bounds are present and the
\* value lies between them
Bounds(summary, val) ==
    /\ IsSome(summary.lower_bound)
    /\ IsSome(summary.upper_bound)
    /\ Unwrap(summary.lower_bound).v <= val.v
    /\ val.v <= Unwrap(summary.upper_bound).v

\* C8: for every manifest written by Append or Rewrite on a partitioned
\* table and every partition column, the summary of the manifest-list
\* entry bounds every non-null value of that column among the manifest's
\* entries, for all scalar types including string and also for a freshly
\* created manifest.
C8_PartitionBounds ==
    ExecutedAny =>
        \A m \in WrittenManifests :
            \A k \in 1..Len(StoredEntries(m)), c \in 1..Len(lastExec.base.fields) :
                LET value == StoredEntries(m)[k].data_file.partition[c]
                IN  IsSome(value) =>
                        /\ IsSome(m.partitions)
                        /\ Bounds(Unwrap(m.partitions)[c], Unwrap(value))

\* the updates of Rewrite, in order: RemoveSnapshots of exactly the
\* snapshots of the metadata it ran against, AddSnapshot, SetSnapshotRef of
\* the branch to the added snapshot
RewriteUpdatesShape(updates, base, branch) ==
    /\ Len(updates) = 3
    /\ updates[1].type = "RemoveSnapshots"
    /\ updates[1].snapshot_ids = DOMAIN base.snapshots
    /\ updates[2].type = "AddSnapshot"
    /\ updates[3].type = "SetSnapshotRef"
    /\ updates[3].ref_name = RefName(branch)
    /\ updates[3].snapshot_reference.snapshot_id = updates[2].snapshot.snapshot_id

RewriteRefSet ==
    /\ RefName(lastCommit.branch) \in DOMAIN catalog.refs
    /\ catalog.refs[RefName(lastCommit.branch)].snapshot_id
          = lastCommit.updates[2].snapshot.snapshot_id

\* C9 as stated: Rewrite emits RemoveSnapshots (all snapshots of the
\* metadata it ran against), AddSnapshot sN, SetSnapshotRef in this order,
\* and after the catalog applies them the table's snapshots are exactly
\* {sN} and the branch points to sN.
C9_RewriteCollapsesLineage ==
    /\ Executed("Rewrite") =>
          RewriteUpdatesShape(lastExec.updates, lastExec.base, lastExec.branch)
    /\ Accepted("Rewrite") =>
          /\ RewriteUpdatesShape(lastCommit.updates, lastCommit.base, lastCommit.branch)
          /\ DOMAIN catalog.snapshots = {lastCommit.updates[2].snapshot.snapshot_id}
          /\ RewriteRefSet

\* C9 as amended: the same updates in the same order; after the catalog
\* applies them no snapshot of the metadata the Rewrite ran against is
\* left, sN is in the table and the branch points to sN; the snapshots are
\* exactly {sN} whenever the catalog held no snapshot that the metadata the
\* Rewrite ran against did not list.
C9_RewriteRemovesBaseSnapshots ==
    /\ Executed("Rewrite") =>
          RewriteUpdatesShape(lastExec.updates, lastExec.base, lastExec.branch)
    /\ Accepted("Rewrite") =>
          /\ RewriteUpdatesShape(lastCommit.updates, lastCommit.base, lastCommit.branch)
          /\ DOMAIN catalog.snapshots
                = (DOMAIN lastCommit.before.snapshots \ DOMAIN lastCommit.base.snapshots)
                  \cup {lastCommit.updates[2].snapshot.snapshot_id}
          /\ RewriteRefSet
          /\ DOMAIN lastCommit.before.snapshots \subseteq DOMAIN lastCommit.base.snapshots
                => DOMAIN catalog.snapshots = {lastCommit.updates[2].snapshot.snapshot_id}

\* C9 happens: a Rewrite has been accepted on a table that held a snapshot,
\* and it left its own snapshot as the only one.
C9_Witness ==
    /\ Accepted("Rewrite")
    /\ DOMAIN lastCommit.base.snapshots # {}
    /\ DOMAIN catalog.snapshots = {lastCommit.updates[2].snapshot.snapshot_id}

\* the paths a snapshot's manifests list together
CoveredPaths(cover) == UNION {Range(cover[i]) : i \in DOMAIN cover}

\* C10: two successive committed Rewrites with the same files yield
\* snapshots whose manifests together list the same set of file paths,
\* namely exactly the paths of the files, each input file appearing in
\* exactly one manifest.
C10_RewriteIdempotent ==
    /\ \A h \in DOMAIN history :
          history[h].op = "Rewrite" =>
              /\ CoveredPaths(history[h].cover) = Range(history[h].files)
              /\ \A p \in Range(history[h].files) :
                    Cardinality({i \in DOMAIN history[h].cover :
                                    p \in Range(history[h].cover[i])}) = 1
    /\ \A h \in DOMAIN history :
          (/\ h + 1 \in DOMAIN history
           /\ history[h].op = "Rewrite"
           /\ history[h + 1].op = "Rewrite"
           /\ history[h].files = history[h + 1].files)
          => CoveredPaths(history[h].cover) = CoveredPaths(history[h + 1].cover)

\* C10 happens: two Rewrites of the same two files, which lie in different
\* partitions, have been committed one after the other.
C10_Witness ==
    /\ Len(history) >= 2
    /\ history[1].op = "Rewrite"
    /\ history[2].op = "Rewrite"
    /\ history[1].files = history[2].files
    /\ Cardinality(Range(history[2].files)) = 2
    /\ Len(history[2].cover) = 2

\* C11: after any sequence of committed operations on any branches and
\* tags, every reference and the current snapshot id name a snapshot that
\* is in the table's snapshots.
C11_RefsNameSnapshots ==
    /\ \A n \in DOMAIN catalog.refs : catalog.refs[n].snapshot_id \in DOMAIN catalog.snapshots
    /\ IsSome(catalog.current_snapshot_id)
          => Unwrap(catalog.current_snapshot_id) \in DOMAIN catalog.snapshots

\* C12: in every execution of Append or Rewrite every manifest put of the
\* new snapshot comes before the put of its manifest list, the manifest
\* list put is the last one, and when the operation has returned its
\* updates for the commit the manifest list and the manifests it names are
\* in the object store.
C12_ManifestsBeforeList ==
    /\ (ExecutedAny /\ AddsSnapshot(lastExec.updates)) =>
          LET n == Len(lastExec.puts)
              list_location == AddedSnapshot(lastExec.updates).manifest_list
          IN  /\ n >= 1
              /\ lastExec.puts[n].key = list_location
              /\ \A i \in 1..(n - 1) :
                    /\ lastExec.puts[i].key # list_location
                    /\ \E m \in Range(lastExec.puts[n].val) :
                          m.manifest_path = lastExec.puts[i].key
    /\ \A t \in Txns :
          (txn[t].state = "executed" /\ AddsSnapshot(txn[t].updates)) =>
              LET list_location == AddedSnapshot(txn[t].updates).manifest_list
              IN  /\ list_location \in DOMAIN store
                  /\ \A m \in Range(store[list_location]) : m.manifest_path \in DOMAIN store

\* C12 happens: a Rewrite has put two manifests and then its manifest list,
\* and waits for its commit.
C12_Witness ==
    /\ Executed("Rewrite")
    /\ Len(lastExec.puts) = 3
    /\ \E t \in Txns : txn[t].state = "executed" /\ txn[t].op = "Rewrite"

\* C13: Append and Rewrite on a branch emit the requirement
\* AssertRefSnapshotId{ref = the branch or "main", snapshot_id = id of the
\* branch's current snapshot} if and only if the branch has a current
\* snapshot in the metadata they ran against; otherwise they emit none.
C13_RequirementIffSnapshot ==
    (Executed("Append") \/ Executed("Rewrite")) =>
        lastExec.requirement
            = (IF IsSome(Tip(lastExec.base, lastExec.branch))
               THEN Some([type |-> "AssertRefSnapshotId",
                          ref |-> RefName(lastExec.branch),
                          snapshot_id |-> Unwrap(Tip(lastExec.base, lastExec.branch)).snapshot_id])
               ELSE None)

\* C13 happens: an operation ran on the branch "dev" when it had a snapshot
\* and emitted a requirement.
C13_Witness ==
    /\ ExecutedAny
    /\ lastExec.branch = Some("dev")
    /\ IsSome(Tip(lastExec.base, lastExec.branch))
    /\ IsSome(lastExec.requirement)

\* C14: Append with an empty file list fails with NotFound; it has asked
\* the object store for nothing and put nothing, and it emits no
\* requirement and no update.
C14_EmptyAppendFails ==
    (lastExec.op = "Append" /\ lastExec.files = <<>>) =>
        /\ ~lastExec.ok
        /\ lastExec.err = "NotFound"
        /\ lastExec.gets = <<>>
        /\ lastExec.puts = <<>>
        /\ store = lastExec.before
        /\ lastExec.requirement = None
        /\ lastExec.updates = <<>>

\* C14 happens: Append ran with no files on a branch whose snapshot has a
\* manifest list it could have read.
C14_Witness ==
    /\ lastExec.op = "Append"
    /\ lastExec.files = <<>>
    /\ IsSome(current_snapshot(lastExec.base, lastExec.branch))

\* the last execution read a key whose stored records do not all decode
ReadUndecodable ==
    \E i \in DOMAIN lastExec.gets :
        \E k \in DOMAIN lastExec.before[lastExec.gets[i]] :
            ~Decodable(lastExec.before[lastExec.gets[i]][k])

\* C15: no error is swallowed: an Append that reads an entry it cannot
\* decode, in the manifest it elected or in the old manifest list, returns
\* an error.
C15_UndecodableEntryFails ==
    (lastExec.op = "Append" /\ ReadUndecodable) =>
        ~lastExec.ok

C17_Reload ==
    lastCall.op = "reload" =>
        /\ (lastCall.response.ok
            /\ lastCall.response.tabular.variant # lastCall.before.variant)
           => (~lastCall.ok /\ lastCall.err = "InvalidFormat")
        /\ ~lastCall.response.ok => ~lastCall.ok
        /\ ~lastCall.ok => tabular = lastCall.before
        /\ lastCall.ok =>
              /\ tabular.variant = lastCall.before.variant
              /\ tabular = lastCall.response.tabular

\* C17 happens: the catalog answered with another variant and other
\* metadata than the handle holds.
C17_Witness ==
    /\ lastCall.op = "reload"
    /\ lastCall.response.ok
    /\ lastCall.response.tabular.variant # lastCall.before.variant
    /\ lastCall.response.tabular.metadata # lastCall.before.metadata

\* the manifests a snapshot of the metadata lists in the object store
ListedBy(meta, st, id) ==
    IF meta.snapshots[id].manifest_list \in DOMAIN st
    THEN Range(st[meta.snapshots[id].manifest_list])
    ELSE {}

\* the manifests of the end snapshot that a snapshot later than `start`
\* added and `start` does not list
AddedAfter(meta, st, start, end) ==
    {m \in ListedBy(meta, st, end) :
        /\ \A n \in ListedBy(meta, st, start) : n.manifest_path # m.manifest_path
        /\ m.added_snapshot_id \in DOMAIN meta.snapshots
        /\ meta.snapshots[m.added_snapshot_id].sequence_number
              > meta.snapshots[start].sequence_number}

\* C18: Table::manifests(start, end) excludes the start snapshot, whatever
\* its sequence number: no manifest the start snapshot lists is returned,
\* and every manifest added after it up to the end snapshot is returned.
C18_ManifestsExcludeStart ==
    (lastCall.op = "manifests" /\ lastCall.ok
     /\ lastCall.start # None /\ lastCall.end # None) =>
        /\ Range(lastCall.manifests)
             \cap ListedBy(lastCall.meta, lastCall.before, Unwrap(lastCall.start)) = {}
        /\ AddedAfter(lastCall.meta, lastCall.before,
                      Unwrap(lastCall.start), Unwrap(lastCall.end))
             \subseteq Range(lastCall.manifests)

\* the manifest lists, manifests and data files that can be reached from
\* the snapshots of a metadata
ReachableLists(meta) == {meta.snapshots[id].manifest_list : id \in DOMAIN meta.snapshots}

ReachableManifests(meta, st) ==
    UNION {{m.manifest_path : m \in ListedBy(meta, st, id)} : id \in DOMAIN meta.snapshots}

ReachableDataFiles(meta, st) ==
    UNION {{st[p][k].data_file.file_path : k \in DOMAIN st[p]} :
              p \in ReachableManifests(meta, st) \cap DOMAIN st}

\* C19: once delete_all_table_files has returned Ok, every manifest list,
\* manifest and data file reachable from any snapshot of the metadata has
\* been deleted.
C19_DeleteAllReachable ==
    (lastCall.op = "delete_all_table_files" /\ lastCall.ok) =>
        /\ ReachableLists(lastCall.meta) \subseteq lastCall.deleted.manifest_lists
        /\ ReachableManifests(lastCall.meta, lastCall.before) \subseteq lastCall.deleted.manifests
        /\ ReachableDataFiles(lastCall.meta, lastCall.before) \subseteq lastCall.deleted.data_files

\* the puts of manifests among a sequence of puts
ManifestPuts(puts) ==
    LET isManifest(put) == put.key[1] = "m"
    IN  SelectSeq(puts, isManifest)

\* C20: within one Append or Rewrite the manifests written for different
\* groups get pairwise distinct keys <uuid>-m<i>, through the executor
\* and through ManifestListWriter::append_manifest_entries_to_new_manifests.
C20_ManifestKeysDistinct ==
    /\ (lastExec.ok /\ lastExec.op \in {"Append", "Rewrite"}) =>
          Cardinality(PutKeys(ManifestPuts(lastExec.puts))) = Len(ManifestPuts(lastExec.puts))
    /\ lastCall.op = "append_manifest_entries_to_new_manifests" =>
          Cardinality(PutKeys(lastCall.puts)) = Len(lastCall.puts)

\* how often an entry occurs in a sequence, and in the groups of a split
Occurrences(entry, entries) == Cardinality({k \in DOMAIN entries : entries[k] = entry})

OccurrencesIn(entry, groups) == SumSeq([g \in DOMAIN groups |-> Occurrences(entry, groups[g])])

\* ceil(total / 2^n)
CeilDiv(total, d) == (total + d - 1) \div d

\* the groups are 2^n_splits and every entry lands in exactly one of them
SplitPartitions ==
    /\ Len(lastCall.groups) = Pow2(lastCall.n_splits)
    /\ \A entry \in Range(lastCall.entries) :
          OccurrencesIn(entry, lastCall.groups) = Occurrences(entry, lastCall.entries)
    /\ \A g \in DOMAIN lastCall.groups : Range(lastCall.groups[g]) \subseteq Range(lastCall.entries)

\* no group holds more than 2 * ceil(total / 2^n) entries
SplitBalanced ==
    \A g \in DOMAIN lastCall.groups :
        Len(lastCall.groups[g])
            <= 2 * CeilDiv(Len(lastCall.entries), Pow2(lastCall.n_splits))

\* entries with the same partition values land in the same group
SplitByValue ==
    \A g, h \in DOMAIN lastCall.groups :
        \A k \in DOMAIN lastCall.groups[g], l \in DOMAIN lastCall.groups[h] :
            lastCall.groups[g][k].data_file.partition = lastCall.groups[h][l].data_file.partition
                => g = h

ElectionMade == lastExec.op = "Append" /\ Len(lastExec.gets) = 2

OldList == lastExec.before[lastExec.gets[1]]

ElectedIndexes == {k \in DOMAIN OldList : OldList[k].manifest_path = lastExec.gets[2]}

\* a <= b for row counts, an absent count being infinite
RowsLeq(a, b) == b = None \/ (a # None /\ Unwrap(a) <= Unwrap(b))

\* C22: on an unpartitioned table the selector elects a manifest whose
\* added_rows_count is at most that of every other manifest of the list,
\* an absent added_rows_count counting as infinite.
C22_SelectorMinimum ==
    (ElectionMade /\ lastExec.base.fields = <<>>) =>
        \A k \in ElectedIndexes : \A j \in DOMAIN OldList :
            RowsLeq(OldList[k].added_rows_count, OldList[j].added_rows_count)

\* C22 happens: the list held three manifests, one of them without a
\* count, and the elected one was not the first.
C22_Witness ==
    /\ ElectionMade
    /\ lastExec.base.fields = <<>>
    /\ Len(OldList) = MaxManifests
    /\ \E j \in DOMAIN OldList : OldList[j].added_rows_count = None
    /\ 1 \notin ElectedIndexes
    /\ ElectedIndexes # {}

\* C23: SetSnapshotRef for (name, ref) emits the single update
\* SetSnapshotRef{name, ref}, and the requirement
\* AssertRefSnapshotId{name, refs[name].snapshot_id} if and only if
\* refs[name] exists in the metadata it ran against. (lastExec.branch holds
\* the name and lastExec.files the reference the operation was given.)
C23_SetSnapshotRef ==
    Executed("SetSnapshotRef") =>
        /\ lastExec.updates =
              <<[type |-> "SetSnapshotRef", ref_name |-> Unwrap(lastExec.branch),
                 snapshot_reference |-> lastExec.files[1]]>>
        /\ Unwrap(lastExec.branch) \in DOMAIN lastExec.base.refs =>
              lastExec.requirement =
                 Some([type |-> "AssertRefSnapshotId", ref |-> Unwrap(lastExec.branch),
                       snapshot_id |-> lastExec.base.refs[Unwrap(lastExec.branch)].snapshot_id])
        /\ Unwrap(lastExec.branch) \notin DOMAIN lastExec.base.refs =>
              lastExec.requirement = None

\* C23 happens: an existing reference was moved to another snapshot.
C23_Witness ==
    /\ Executed("SetSnapshotRef")
    /\ Unwrap(lastExec.branch) \in DOMAIN lastExec.base.refs
    /\ lastExec.base.refs[Unwrap(lastExec.branch)].snapshot_id # lastExec.files[1].snapshot_id

\* the paths of the data files listed by the manifests of the snapshot a
\* reference points to
ListedPaths(meta, st, ref) ==
    UNION {{st[m.manifest_path][k].data_file.file_path : k \in DOMAIN st[m.manifest_path]} :
              m \in Range(st[meta.snapshots[meta.refs[ref].snapshot_id].manifest_list])}

\* the paths of the files the committed Appends have appended to a
\* reference
AppendedPaths(ref) ==
    UNION {Range(history[h].files) :
              h \in {g \in DOMAIN history : RefName(history[g].branch) = ref}}

C25_OthersCarriedForward ==
    (Executed("Append") /\ ElectionMade) =>
        \A j \in DOMAIN OldList :
            Occurrences(OldList[j], WrittenList) = (IF j \in ElectedIndexes THEN 0 ELSE 1)

\* the rectangle of an entry of the old list, expanded by the bounding
\* rectangle of the files Append was given
ExpandedRectangle(j) ==
    expand(summary_to_rectangle(Unwrap(OldList[j].partitions)).rect,
           bounding_partition_values(lastExec.files, lastExec.base.fields).rect)

\* C26: on a partitioned table the selector elects the manifest whose
\* rectangle, expanded by the rectangle of the incoming files, is smallest
\* under cmp_with_priority; of several equally small ones the earliest.
C26_SelectorSmallestRectangle ==
    (ElectionMade /\ lastExec.base.fields # <<>>) =>
        \A k \in ElectedIndexes :
            /\ \A j \in DOMAIN OldList :
                  cmp_with_priority(ExpandedRectangle(k), ExpandedRectangle(j)) # "Greater"
            /\ \A j \in 1..(k - 1) :
                  cmp_with_priority(ExpandedRectangle(j), ExpandedRectangle(k)) = "Greater"

\* C26 happens: of three manifests the elected one is not the first, and
\* a later one is as small as it.
C26_Witness ==
    /\ ElectionMade
    /\ lastExec.base.fields # <<>>
    /\ Len(OldList) = MaxManifests
    /\ \E k \in ElectedIndexes :
          /\ k > 1
          /\ \E j \in (k + 1)..Len(OldList) :
                cmp_with_priority(ExpandedRectangle(k), ExpandedRectangle(j)) = "Equal"

\* the last operation was an Append on a branch whose snapshot has a
\* manifest list without entries
AppendOnEmptyList ==
    /\ lastExec.op = "Append"
    /\ IsSome(current_snapshot(lastExec.base, lastExec.branch))
    /\ lastExec.before[Unwrap(current_snapshot(lastExec.base, lastExec.branch)).manifest_list] = <<>>

\* C27: Append on a branch whose current snapshot has an empty manifest
\* list fails with NotFound, puts nothing and produces no update.
C27_EmptyListNotFound ==
    AppendOnEmptyList =>
        /\ ~lastExec.ok
        /\ lastExec.err = "NotFound"
        /\ lastExec.puts = <<>>
        /\ lastExec.updates = <<>>
        /\ lastExec.requirement = None
        /\ store = lastExec.before

\* C27 happens: files were given and the empty manifest list was read.
C27_Witness ==
    /\ AppendOnEmptyList
    /\ lastExec.files # <<>>
    /\ Len(lastExec.gets) = 1

\* the manifest list Append read, empty when the branch had no snapshot
ListRead == IF lastExec.gets = <<>> THEN <<>> ELSE OldList

\* sum of added_files_count over the old list, an absent count being 0
OldFileCount == SumSeq([j \in DOMAIN ListRead |-> UnwrapOr(ListRead[j].added_files_count, 0)])

\* added_files_count of the elected manifest, 0 when absent or when no
\* manifest was elected
ElectedFileCount ==
    IF Len(lastExec.gets) < 2 THEN 0
    ELSE SumSeq([j \in DOMAIN OldList |->
                    IF j \in ElectedIndexes THEN UnwrapOr(OldList[j].added_files_count, 0)
                    ELSE 0])

FloorSqrt(x) == CHOOSE r \in 0..x : r * r <= x /\ x < (r + 1) * (r + 1)

FloorLog2(x) == CHOOSE k \in 0..x : Pow2(k) <= x /\ x < Pow2(k + 1)

StatedLimit(file_count, n) == 4 + FloorSqrt(file_count + n)

StatedSplits(new_file_count, limit) ==
    IF new_file_count \div limit = 0 THEN 0 ELSE FloorLog2(new_file_count \div limit) + 1

\* the split depth the last Append must have used
SplitsOfLastAppend ==
    StatedSplits(ElectedFileCount + Len(lastExec.files),
                 StatedLimit(OldFileCount, Len(lastExec.files)))

\* the manifest files the last operation put: every put but the last one,
\* which is the manifest list
ManifestFilesPut == {lastExec.puts[i].key : i \in 1..(Len(lastExec.puts) - 1)}

\* C28: Append writes one manifest file when n_splits = 0 and 2^n_splits
\* manifest files otherwise, n_splits following from limit = 4 +
\* floor(sqrt(file_count + |files|)) and new_file_count = count of the
\* elected manifest + |files|; 60 files in the elected manifest and 100
\* new ones give limit 16 and n_splits 4.
C28_ManifestsWritten ==
    /\ Executed("Append") =>
          /\ Len(lastExec.puts) - 1 = (IF SplitsOfLastAppend = 0 THEN 1
                                       ELSE Pow2(SplitsOfLastAppend))
          /\ Cardinality(ManifestFilesPut) = Len(lastExec.puts) - 1
    /\ Limit(60, 100) = 16
    /\ NSplits(60 + 100, Limit(60, 100)) = 4

\* C28 happens: an Append that elected a manifest has split.
C28_Witness ==
    /\ Executed("Append")
    /\ Len(lastExec.gets) = 2
    /\ SplitsOfLastAppend > 0
    /\ Len(lastExec.puts) > 2

\* the planner has just computed a split depth
Planned == lastCall.op = "plan"

\* added_files_count of the manifest the planner was given, 0 when there
\* is no manifest or no count
PlannedElectedCount ==
    IF lastCall.manifest = None THEN 0
    ELSE IF Unwrap(lastCall.manifest).added_files_count = None THEN 0
    ELSE Unwrap(Unwrap(lastCall.manifest).added_files_count)

PlannedNewFileCount == PlannedElectedCount + Len(lastCall.files)

PlannedLimit == StatedLimit(lastCall.file_count, Len(lastCall.files))

\* C29: the split depth is sufficient for the limit: new_file_count <
\* limit * 2^n_splits, and n_splits = 0 exactly when new_file_count < limit.
C29_SplitDepthSufficient ==
    Planned =>
        /\ PlannedNewFileCount < PlannedLimit * Pow2(lastCall.n_splits)
        /\ (lastCall.n_splits = 0) <=> (PlannedNewFileCount < PlannedLimit)

\* C29 happens: the files had to be split more than once.
C29_Witness ==
    /\ Planned
    /\ lastCall.n_splits >= 2
    /\ PlannedNewFileCount >= 2 * PlannedLimit

\* the bytes the last operation put at a key
BytesPutAt(key) ==
    {BytesLen(lastExec.puts[i].val) : i \in {k \in DOMAIN lastExec.puts : lastExec.puts[k].key = key}}

\* C30: every manifest-list entry that Append or Rewrite produces carries
\* as manifest_length the number of bytes put at its manifest_path, also
\* when it comes from an elected manifest that had a length already.
C30_LengthIsBytesPut ==
    (Executed("Append") \/ Executed("Rewrite")) =>
        \A m \in WrittenManifests : BytesPutAt(m.manifest_path) = {m.manifest_length}

\* the entries the last operation found stored in the manifest it elected
EntriesRead ==
    IF Len(lastExec.gets) < 2 THEN {} ELSE Range(lastExec.before[lastExec.gets[2]])

\* the entries the last operation created: those it put into a manifest
\* and did not copy from the manifest it read
EntriesCreated ==
    UNION {Range(lastExec.puts[i].val) : i \in 1..(Len(lastExec.puts) - 1)} \ EntriesRead

\* C31: every manifest entry that Append or Rewrite creates for an input
\* file has status Added and the snapshot_id of the snapshot the same
\* operation adds with AddSnapshot, whatever the branch.
C31_EntriesCarryNewSnapshotId ==
    (Executed("Append") \/ Executed("Rewrite")) =>
        /\ \A e \in EntriesCreated :
              /\ e.status = "Added"
              /\ e.snapshot_id = AddedSnapshot(lastExec.updates).snapshot_id
        /\ \A i \in DOMAIN lastExec.files :
              \E e \in EntriesCreated : e.data_file.file_path = lastExec.files[i]

\* the manifests the last operation wrote that hold a given entry
ManifestsHolding(e) ==
    {m \in WrittenManifests :
        \E i \in 1..(Len(lastExec.puts) - 1) :
            lastExec.puts[i].key = m.manifest_path /\ e \in Range(lastExec.puts[i].val)}

\* C32: the sequence number stamped on the entries an Append adds equals
\* the sequence number of the snapshot the same Append adds, and is not
\* greater than the one a reader would inherit from the manifest-list
\* entry that encloses them.
C32_EntrySequenceNumber ==
    Executed("Append") =>
        \A e \in EntriesCreated :
            /\ e.sequence_number = Some(AddedSnapshot(lastExec.updates).sequence_number)
            /\ \A m \in ManifestsHolding(e) : Unwrap(e.sequence_number) <= m.sequence_number

\* a ManifestListWriter has just been finished
Finished == lastCall.op = "finish"

\* the snapshot the inlined Append builds against the metadata and branch
\* the writer was made for
InlinedSnapshot ==
    AppendSnapshot(lastCall.snapshot.snapshot_id, lastCall.snapshot.manifest_list,
                   current_snapshot(lastCall.base, lastCall.branch))

\* C33: the snapshot ManifestListWriter::finish returns has the sequence
\* number of the snapshot the inlined Append builds against the same
\* metadata and branch, and its snapshot_id is the added_snapshot_id of
\* the manifests the writer wrote.
C33_FinishMatchesInlinedAppend ==
    Finished =>
        /\ lastCall.snapshot.sequence_number = InlinedSnapshot.sequence_number
        /\ \A i \in DOMAIN lastCall.manifests :
              lastCall.manifests[i].added_snapshot_id = lastCall.snapshot.snapshot_id

\* a reader has just asked for data files
DatafilesCalled == lastCall.op = "datafiles" /\ lastCall.result.ok

\* the manifests whose filter flag is true; all of them without a vector
FlaggedIndexes ==
    IF lastCall.filter = None THEN DOMAIN lastCall.manifests
    ELSE {i \in DOMAIN lastCall.manifests :
            i \in DOMAIN Unwrap(lastCall.filter) /\ Unwrap(lastCall.filter)[i]}

\* the sequence number of entry k of manifest i: its own, or the one of
\* the manifest-list entry
EffectiveSequenceNumber(i, k) ==
    LET stored == store[lastCall.manifests[i].manifest_path][k].sequence_number
    IN  IF stored = None THEN lastCall.manifests[i].sequence_number ELSE Unwrap(stored)

SatisfiesRange(n) ==
    /\ lastCall.start = None \/ Unwrap(lastCall.start) < n
    /\ lastCall.end = None \/ n <= Unwrap(lastCall.end)

\* the entries that are due: (i, k) for entry k of a flagged manifest i
\* whose sequence number is in the range
DueEntries ==
    {ik \in FlaggedIndexes \X (1..MaxStored) :
        /\ ik[2] \in DOMAIN store[lastCall.manifests[ik[1]].manifest_path]
        /\ SatisfiesRange(EffectiveSequenceNumber(ik[1], ik[2]))}

\* what is yielded for a due entry: the stored entry with its sequence
\* number present
DueEntry(ik) ==
    [store[lastCall.manifests[ik[1]].manifest_path][ik[2]]
        EXCEPT !.sequence_number = Some(EffectiveSequenceNumber(ik[1], ik[2]))]

\* C34: every entry datafiles yields has a sequence number, its own or the
\* one of its manifest-list entry, within start < n <= end; every entry
\* of a flagged manifest within the range is yielded, once; and only the
\* flagged manifests are read.
C34_DatafilesRange ==
    DatafilesCalled =>
        /\ DOMAIN lastCall.result.yielded = {DueEntry(ik) : ik \in DueEntries}
        /\ \A x \in DOMAIN lastCall.result.yielded :
              /\ x.sequence_number # None
              /\ SatisfiesRange(Unwrap(x.sequence_number))
              /\ lastCall.result.yielded[x] = 1
        /\ lastCall.result.gets =
              {lastCall.manifests[i].manifest_path : i \in FlaggedIndexes}

\* C34 happens: of two manifests one is flagged, an entry of it without
\* sequence number is yielded and another entry of it is out of range.
C34_Witness ==
    /\ DatafilesCalled
    /\ Len(lastCall.manifests) = 2
    /\ Cardinality(FlaggedIndexes) = 1
    /\ lastCall.start # None
    /\ \E ik \in DueEntries :
          store[lastCall.manifests[ik[1]].manifest_path][ik[2]].sequence_number = None
    /\ \E i \in FlaggedIndexes :
          \E k \in DOMAIN store[lastCall.manifests[i].manifest_path] : <<i, k>> \notin DueEntries

\* the keys whose delete has been issued in a phase
IssuedKeys(phase) == {d.key : d \in lastCall.issued[phase]}

\* the data files listed by the manifests that are still stored
DataFilesListed ==
    UNION {{store[lastCall.manifests[i].manifest_path][k].data_file.file_path :
                k \in DOMAIN store[lastCall.manifests[i].manifest_path]}
           : i \in {j \in DOMAIN lastCall.manifests :
                        lastCall.manifests[j].manifest_path \in DOMAIN store}}

ManifestsListed == {lastCall.manifests[i].manifest_path : i \in DOMAIN lastCall.manifests}

\* C35: delete_all_table_files deletes in phases: a manifest delete is
\* issued only after every data-file delete has completed, a
\* manifest-list delete only after every manifest delete has completed,
\* and after a failed delete no delete of a later phase is issued.
C35_DeletePhases ==
    lastCall.op = "delete" =>
        /\ \A d \in lastCall.issued.manifests :
              /\ IssuedKeys("data_files") \subseteq d.completed.data_files
              /\ DataFilesListed \subseteq d.completed.data_files
              /\ ~d.failed
        /\ \A d \in lastCall.issued.manifest_lists :
              /\ IssuedKeys("manifests") \subseteq d.completed.manifests
              /\ ManifestsListed \subseteq d.completed.manifests
              /\ ~d.failed

\* C35 happens: a manifest-list delete was issued after two data files and
\* two manifests were deleted, and a later delete failed.
C35_Witness ==
    /\ lastCall.op = "delete"
    /\ lastCall.issued.manifest_lists # {}
    /\ Cardinality(lastCall.completed.data_files) >= 2
    /\ Cardinality(lastCall.completed.manifests) >= 2
    /\ lastCall.phase = "failed"

\* C36: Rewrite of a non-empty file list against a metadata without
\* current snapshot fails with NotFound before any put and without any
\* update; Rewrite of an empty file list succeeds and adds a snapshot
\* whose manifest list has no entries.
C36_RewriteWithoutSnapshot ==
    /\ (/\ lastExec.op = "Rewrite"
        /\ lastExec.files # <<>>
        /\ lastExec.base.current_snapshot_id = None)
          => /\ ~lastExec.ok
             /\ lastExec.err = "NotFound"
             /\ lastExec.puts = <<>>
             /\ lastExec.updates = <<>>
             /\ store = lastExec.before
    /\ (lastExec.op = "Rewrite" /\ lastExec.files = <<>>)
          => /\ lastExec.ok
             /\ AddsSnapshot(lastExec.updates)
             /\ Len(lastExec.puts) = 1
             /\ lastExec.puts[1].key = AddedSnapshot(lastExec.updates).manifest_list
             /\ store[AddedSnapshot(lastExec.updates).manifest_list] = <<>>

\* C36 happens: files were given to a Rewrite of a table without snapshot.
C36_Witness ==
    /\ lastExec.op = "Rewrite"
    /\ lastExec.files # <<>>
    /\ lastExec.base.current_snapshot_id = None
    /\ ~lastExec.ok

\* a is a prefix of b
IsPrefix(a, b) == Len(a) <= Len(b) /\ \A i \in DOMAIN a : a[i] = b[i]

\* the batches among the first n items of the input of a partition
OkBatches(p, n) ==
    LET produced == [i \in 1..n |-> IF nodes.input[p][i] THEN Batch(i) ELSE ErrItem("input")]
    IN  SelectSeq(produced, LAMBDA x : x.ok)

\* the items of the input whose handling by the sender stream is complete
Handled(p) ==
    IF nodes.sender_stream[p].state = "send" THEN nodes.sender_stream[p].pos - 1
    ELSE nodes.sender_stream[p].pos

\* what has been enqueued on the channel of a partition so far
Enqueued(p) == nodes.receiver_stream[p].yielded \o nodes.unbounded[p].queue

\* the batches the sender stream has yielded downstream
YieldedDownstream(p) == SelectSeq(nodes.downstream[p], LAMBDA x : x.ok)

\* C37: for each partition the receiver stream yields exactly the batches
\* the sender's input produced successfully, in order; a batch is on the
\* channel before the sender yields it downstream; and the receiver
\* stream ends only after the sender's input has ended.
C37_ReceiverMirrorsSender ==
    nodes.planned # "none" =>
        \A p \in Partitions :
            /\ Enqueued(p) = OkBatches(p, Handled(p))
            /\ IsPrefix(nodes.receiver_stream[p].yielded, OkBatches(p, Len(nodes.input[p])))
            /\ IsPrefix(YieldedDownstream(p), Enqueued(p))
            /\ nodes.receiver_stream[p].state = "ended" =>
                  /\ nodes.sender_stream[p].state = "ended"
                  /\ nodes.receiver_stream[p].yielded = OkBatches(p, Len(nodes.input[p]))

\* C37 happens: a receiver stream has ended after it yielded two batches,
\* and another after its input had failed once.
C37_Witness ==
    /\ nodes.planned # "none"
    /\ \E p, q \in Partitions :
          /\ nodes.receiver_stream[p].state = "ended"
          /\ Len(nodes.receiver_stream[p].yielded) = MaxBatches
          /\ nodes.receiver_stream[q].state = "ended"
          /\ \E i \in DOMAIN nodes.input[q] : ~nodes.input[q][i]
          /\ nodes.receiver_stream[q].yielded # <<>>

\* the tasks that hold the receiving end of the planning channel
Holders == {t \in Tasks : nodes.planner[t] \in {"waiting", "planned"}}

\* the tasks that obtained the stream of a partition
Streaming(p) == {t \in Tasks : nodes.executor[p][t] = "streaming"}

\* C38: each receiving end is consumed at most once: the first planning
\* of the ReceiverNode and the first execute of a partition take it, every
\* later one aborts with "Fork node can only be executed once", and the
\* planning of the ReceiverNode completes only once the SenderNode has
\* been planned.
C38_ReceivedOnce ==
    nodes.planned # "none" =>
        /\ Cardinality(Holders) <= 1
        /\ nodes.receiver <=> Holders = {}
        /\ \A t \in Tasks :
              /\ nodes.planner[t] = "panicked" => Holders \ {t} # {}
              /\ nodes.planner[t] = "planned" => nodes.planned = "sender"
        /\ \A p \in Partitions :
              /\ Cardinality(Streaming(p)) <= 1
              /\ nodes.receivers[p] <=> Streaming(p) = {}
              /\ \A t \in Tasks :
                    nodes.executor[p][t] = "panicked" => Streaming(p) \ {t} # {}

\* C38 happens: the node was planned by one task and the other was turned
\* away, and the same happened for the execute of a partition.
C38_Witness ==
    /\ nodes.planned = "sender"
    /\ \E t, u \in Tasks : nodes.planner[t] = "planned" /\ nodes.planner[u] = "panicked"
    /\ \E p \in Partitions :
          \E t, u \in Tasks :
              nodes.executor[p][t] = "streaming" /\ nodes.executor[p][u] = "panicked"

====
